---- MODULE Spec2Model ----
(***************************************************************************)
(* Review Sentiment Analyzer: the browser client (app.js) as a state       *)
(* machine of its event handlers, promise continuations and timers.        *)
(*                                                                         *)
(* Texts and labels are sequences of one-character strings, so that        *)
(* trim(), toUpperCase() and includes() are computed character by          *)
(* character.  Scores are integers in thousandths: 980 stands for 0.98.    *)
(* Timestamps are readings of the clock `now'.                             *)
(***************************************************************************)
EXTENDS Integers, Sequences, FiniteSets, TLC

(***************************************************************************)
(* Bounds of the model.                                                    *)
(***************************************************************************)
MaxTime == 1
MaxInFlight == 2
MaxResetTimers == 1
MaxHideTimers == 2

(***************************************************************************)
(* Program constants.                                                      *)
(***************************************************************************)
\* Scores are counted in units of 1/4000, which holds the thousandths and
\* the thirty-seconds.  A thirty-second is held exactly by a double, and so
\* is its product by 100; a thousandth times 100 is within rounding error
\* of a number with one decimal, far from any tie.  For these scores
\* toFixed(1) is the rounding of the exact value, the larger neighbour at a
\* tie.
Thousandth == 4
ThirtySecond == 125
\* score > 0.5
Half == 2000
\* the largest score, 1.0
ScoreOne == 4000

Null == [kind |-> "null"]

MODEL_NAME == "Xenova/distilbert-base-uncased-finetuned-sst-2-english"

(***************************************************************************)
(* Strings as character sequences.                                         *)
(***************************************************************************)
\* String.prototype.toUpperCase (line 163) maps every character of the
\* string to its upper case form in Unicode, whatever the locale: one
\* character for most, two or three for some (sharp s gives SS).  The
\* characters that it changes, each with what it becomes; every other
\* character stays as it is.  A character that a string of this module
\* cannot hold is written by the name of its code point.
UpperCaseMapping ==
    <<
       <<"a", <<"A">>>>, <<"b", <<"B">>>>, <<"c", <<"C">>>>, <<"d", <<"D">>>>,
       <<"e", <<"E">>>>, <<"f", <<"F">>>>, <<"g", <<"G">>>>, <<"h", <<"H">>>>,
       <<"i", <<"I">>>>, <<"j", <<"J">>>>, <<"k", <<"K">>>>, <<"l", <<"L">>>>,
       <<"m", <<"M">>>>, <<"n", <<"N">>>>, <<"o", <<"O">>>>, <<"p", <<"P">>>>,
       <<"q", <<"Q">>>>, <<"r", <<"R">>>>, <<"s", <<"S">>>>, <<"t", <<"T">>>>,
       <<"u", <<"U">>>>, <<"v", <<"V">>>>, <<"w", <<"W">>>>, <<"x", <<"X">>>>,
       <<"y", <<"Y">>>>, <<"z", <<"Z">>>>, <<"µ", <<"Μ">>>>,
       <<"ß", <<"S", "S">>>>, <<"à", <<"À">>>>, <<"á", <<"Á">>>>,
       <<"â", <<"Â">>>>, <<"ã", <<"Ã">>>>, <<"ä", <<"Ä">>>>, <<"å", <<"Å">>>>,
       <<"æ", <<"Æ">>>>, <<"ç", <<"Ç">>>>, <<"è", <<"È">>>>, <<"é", <<"É">>>>,
       <<"ê", <<"Ê">>>>, <<"ë", <<"Ë">>>>, <<"ì", <<"Ì">>>>, <<"í", <<"Í">>>>,
       <<"î", <<"Î">>>>, <<"ï", <<"Ï">>>>, <<"ð", <<"Ð">>>>, <<"ñ", <<"Ñ">>>>,
       <<"ò", <<"Ò">>>>, <<"ó", <<"Ó">>>>, <<"ô", <<"Ô">>>>, <<"õ", <<"Õ">>>>,
       <<"ö", <<"Ö">>>>, <<"ø", <<"Ø">>>>, <<"ù", <<"Ù">>>>, <<"ú", <<"Ú">>>>,
       <<"û", <<"Û">>>>, <<"ü", <<"Ü">>>>, <<"ý", <<"Ý">>>>, <<"þ", <<"Þ">>>>,
       <<"ÿ", <<"U+0178">>>>, <<"U+0101", <<"U+0100">>>>,
       <<"U+0103", <<"U+0102">>>>, <<"U+0105", <<"U+0104">>>>,
       <<"U+0107", <<"U+0106">>>>, <<"U+0109", <<"U+0108">>>>,
       <<"U+010B", <<"U+010A">>>>, <<"U+010D", <<"U+010C">>>>,
       <<"U+010F", <<"U+010E">>>>, <<"U+0111", <<"U+0110">>>>,
       <<"U+0113", <<"U+0112">>>>, <<"U+0115", <<"U+0114">>>>,
       <<"U+0117", <<"U+0116">>>>, <<"U+0119", <<"U+0118">>>>,
       <<"U+011B", <<"U+011A">>>>, <<"U+011D", <<"U+011C">>>>,
       <<"U+011F", <<"U+011E">>>>, <<"U+0121", <<"U+0120">>>>,
       <<"U+0123", <<"U+0122">>>>, <<"U+0125", <<"U+0124">>>>,
       <<"U+0127", <<"U+0126">>>>, <<"U+0129", <<"U+0128">>>>,
       <<"U+012B", <<"U+012A">>>>, <<"U+012D", <<"U+012C">>>>,
       <<"U+012F", <<"U+012E">>>>, <<"U+0131", <<"I">>>>,
       <<"U+0133", <<"U+0132">>>>, <<"U+0135", <<"U+0134">>>>,
       <<"U+0137", <<"U+0136">>>>, <<"U+013A", <<"U+0139">>>>,
       <<"U+013C", <<"U+013B">>>>, <<"U+013E", <<"U+013D">>>>,
       <<"U+0140", <<"U+013F">>>>, <<"U+0142", <<"U+0141">>>>,
       <<"U+0144", <<"U+0143">>>>, <<"U+0146", <<"U+0145">>>>,
       <<"U+0148", <<"U+0147">>>>, <<"U+0149", <<"ʼ", "N">>>>,
       <<"U+014B", <<"U+014A">>>>, <<"U+014D", <<"U+014C">>>>,
       <<"U+014F", <<"U+014E">>>>, <<"U+0151", <<"U+0150">>>>,
       <<"U+0153", <<"U+0152">>>>, <<"U+0155", <<"U+0154">>>>,
       <<"U+0157", <<"U+0156">>>>, <<"U+0159", <<"U+0158">>>>,
       <<"U+015B", <<"U+015A">>>>, <<"U+015D", <<"U+015C">>>>,
       <<"U+015F", <<"U+015E">>>>, <<"U+0161", <<"U+0160">>>>,
       <<"U+0163", <<"U+0162">>>>, <<"U+0165", <<"U+0164">>>>,
       <<"U+0167", <<"U+0166">>>>, <<"U+0169", <<"U+0168">>>>,
       <<"U+016B", <<"U+016A">>>>, <<"U+016D", <<"U+016C">>>>,
       <<"U+016F", <<"U+016E">>>>, <<"U+0171", <<"U+0170">>>>,
       <<"U+0173", <<"U+0172">>>>, <<"U+0175", <<"U+0174">>>>,
       <<"U+0177", <<"U+0176">>>>, <<"U+017A", <<"U+0179">>>>,
       <<"U+017C", <<"U+017B">>>>, <<"U+017E", <<"U+017D">>>>,
       <<"U+017F", <<"S">>>>, <<"ƀ", <<"U+0243">>>>, <<"ƃ", <<"Ƃ">>>>,
       <<"ƅ", <<"Ƅ">>>>, <<"ƈ", <<"Ƈ">>>>, <<"ƌ", <<"Ƌ">>>>, <<"ƒ", <<"Ƒ">>>>,
       <<"ƕ", <<"Ƕ">>>>, <<"ƙ", <<"Ƙ">>>>, <<"ƚ", <<"U+023D">>>>,
       <<"ƛ", <<"Ƛ">>>>, <<"ƞ", <<"U+0220">>>>, <<"ơ", <<"Ơ">>>>,
       <<"ƣ", <<"Ƣ">>>>, <<"ƥ", <<"Ƥ">>>>, <<"ƨ", <<"Ƨ">>>>, <<"ƭ", <<"Ƭ">>>>,
       <<"ư", <<"Ư">>>>, <<"ƴ", <<"Ƴ">>>>, <<"ƶ", <<"Ƶ">>>>, <<"ƹ", <<"Ƹ">>>>,
       <<"ƽ", <<"Ƽ">>>>, <<"ƿ", <<"Ƿ">>>>, <<"ǅ", <<"Ǆ">>>>, <<"ǆ", <<"Ǆ">>>>,
       <<"ǈ", <<"Ǉ">>>>, <<"ǉ", <<"Ǉ">>>>, <<"ǋ", <<"Ǌ">>>>, <<"ǌ", <<"Ǌ">>>>,
       <<"ǎ", <<"Ǎ">>>>, <<"ǐ", <<"Ǐ">>>>, <<"ǒ", <<"Ǒ">>>>, <<"ǔ", <<"Ǔ">>>>,
       <<"ǖ", <<"Ǖ">>>>, <<"ǘ", <<"Ǘ">>>>, <<"ǚ", <<"Ǚ">>>>, <<"ǜ", <<"Ǜ">>>>,
       <<"ǝ", <<"Ǝ">>>>, <<"ǟ", <<"Ǟ">>>>, <<"ǡ", <<"Ǡ">>>>, <<"ǣ", <<"Ǣ">>>>,
       <<"ǥ", <<"Ǥ">>>>, <<"ǧ", <<"Ǧ">>>>, <<"ǩ", <<"Ǩ">>>>, <<"ǫ", <<"Ǫ">>>>,
       <<"ǭ", <<"Ǭ">>>>, <<"ǯ", <<"Ǯ">>>>, <<"ǰ", <<"J", "U+030C">>>>,
       <<"ǲ", <<"Ǳ">>>>, <<"ǳ", <<"Ǳ">>>>, <<"ǵ", <<"Ǵ">>>>, <<"ǹ", <<"Ǹ">>>>,
       <<"ǻ", <<"Ǻ">>>>, <<"ǽ", <<"Ǽ">>>>, <<"ǿ", <<"Ǿ">>>>,
       <<"U+0201", <<"U+0200">>>>, <<"U+0203", <<"U+0202">>>>,
       <<"U+0205", <<"U+0204">>>>, <<"U+0207", <<"U+0206">>>>,
       <<"U+0209", <<"U+0208">>>>, <<"U+020B", <<"U+020A">>>>,
       <<"U+020D", <<"U+020C">>>>, <<"U+020F", <<"U+020E">>>>,
       <<"U+0211", <<"U+0210">>>>, <<"U+0213", <<"U+0212">>>>,
       <<"U+0215", <<"U+0214">>>>, <<"U+0217", <<"U+0216">>>>,
       <<"U+0219", <<"U+0218">>>>, <<"U+021B", <<"U+021A">>>>,
       <<"U+021D", <<"U+021C">>>>, <<"U+021F", <<"U+021E">>>>,
       <<"U+0223", <<"U+0222">>>>, <<"U+0225", <<"U+0224">>>>,
       <<"U+0227", <<"U+0226">>>>, <<"U+0229", <<"U+0228">>>>,
       <<"U+022B", <<"U+022A">>>>, <<"U+022D", <<"U+022C">>>>,
       <<"U+022F", <<"U+022E">>>>, <<"U+0231", <<"U+0230">>>>,
       <<"U+0233", <<"U+0232">>>>, <<"U+023C", <<"U+023B">>>>,
       <<"U+023F", <<"U+2C7E">>>>, <<"U+0240", <<"U+2C7F">>>>,
       <<"U+0242", <<"U+0241">>>>, <<"U+0247", <<"U+0246">>>>,
       <<"U+0249", <<"U+0248">>>>, <<"U+024B", <<"U+024A">>>>,
       <<"U+024D", <<"U+024C">>>>, <<"U+024F", <<"U+024E">>>>,
       <<"U+0250", <<"U+2C6F">>>>, <<"U+0251", <<"U+2C6D">>>>,
       <<"U+0252", <<"U+2C70">>>>, <<"U+0253", <<"Ɓ">>>>,
       <<"U+0254", <<"Ɔ">>>>, <<"U+0256", <<"Ɖ">>>>, <<"U+0257", <<"Ɗ">>>>,
       <<"U+0259", <<"Ə">>>>, <<"U+025B", <<"Ɛ">>>>, <<"U+025C", <<"Ɜ">>>>,
       <<"U+0260", <<"Ɠ">>>>, <<"U+0261", <<"Ɡ">>>>, <<"U+0263", <<"Ɣ">>>>,
       <<"U+0264", <<"Ɤ">>>>, <<"U+0265", <<"Ɥ">>>>, <<"U+0266", <<"Ɦ">>>>,
       <<"U+0268", <<"Ɨ">>>>, <<"U+0269", <<"Ɩ">>>>, <<"U+026A", <<"Ɪ">>>>,
       <<"U+026B", <<"U+2C62">>>>, <<"U+026C", <<"Ɬ">>>>,
       <<"U+026F", <<"Ɯ">>>>, <<"U+0271", <<"U+2C6E">>>>,
       <<"U+0272", <<"Ɲ">>>>, <<"U+0275", <<"Ɵ">>>>,
       <<"U+027D", <<"U+2C64">>>>, <<"ʀ", <<"Ʀ">>>>, <<"ʂ", <<"Ʂ">>>>,
       <<"ʃ", <<"Ʃ">>>>, <<"ʇ", <<"Ʇ">>>>, <<"ʈ", <<"Ʈ">>>>,
       <<"ʉ", <<"U+0244">>>>, <<"ʊ", <<"Ʊ">>>>, <<"ʋ", <<"Ʋ">>>>,
       <<"ʌ", <<"U+0245">>>>, <<"ʒ", <<"Ʒ">>>>, <<"ʝ", <<"Ʝ">>>>,
       <<"ʞ", <<"Ʞ">>>>, <<"U+0345", <<"Ι">>>>, <<"U+0371", <<"U+0370">>>>,
       <<"U+0373", <<"U+0372">>>>, <<"U+0377", <<"U+0376">>>>,
       <<"U+037B", <<"Ͻ">>>>, <<"U+037C", <<"Ͼ">>>>, <<"U+037D", <<"Ͽ">>>>,
       <<"ΐ", <<"Ι", "U+0308", "U+0301">>>>, <<"ά", <<"Ά">>>>,
       <<"έ", <<"Έ">>>>, <<"ή", <<"Ή">>>>, <<"ί", <<"Ί">>>>,
       <<"ΰ", <<"Υ", "U+0308", "U+0301">>>>, <<"α", <<"Α">>>>,
       <<"β", <<"Β">>>>, <<"γ", <<"Γ">>>>, <<"δ", <<"Δ">>>>, <<"ε", <<"Ε">>>>,
       <<"ζ", <<"Ζ">>>>, <<"η", <<"Η">>>>, <<"θ", <<"Θ">>>>, <<"ι", <<"Ι">>>>,
       <<"κ", <<"Κ">>>>, <<"λ", <<"Λ">>>>, <<"μ", <<"Μ">>>>, <<"ν", <<"Ν">>>>,
       <<"ξ", <<"Ξ">>>>, <<"ο", <<"Ο">>>>, <<"π", <<"Π">>>>, <<"ρ", <<"Ρ">>>>,
       <<"ς", <<"Σ">>>>, <<"σ", <<"Σ">>>>, <<"τ", <<"Τ">>>>, <<"υ", <<"Υ">>>>,
       <<"φ", <<"Φ">>>>, <<"χ", <<"Χ">>>>, <<"ψ", <<"Ψ">>>>, <<"ω", <<"Ω">>>>,
       <<"ϊ", <<"Ϊ">>>>, <<"ϋ", <<"Ϋ">>>>, <<"ό", <<"Ό">>>>, <<"ύ", <<"Ύ">>>>,
       <<"ώ", <<"Ώ">>>>, <<"ϐ", <<"Β">>>>, <<"ϑ", <<"Θ">>>>, <<"ϕ", <<"Φ">>>>,
       <<"ϖ", <<"Π">>>>, <<"ϗ", <<"Ϗ">>>>, <<"ϙ", <<"Ϙ">>>>, <<"ϛ", <<"Ϛ">>>>,
       <<"ϝ", <<"Ϝ">>>>, <<"ϟ", <<"Ϟ">>>>, <<"ϡ", <<"Ϡ">>>>, <<"ϣ", <<"Ϣ">>>>,
       <<"ϥ", <<"Ϥ">>>>, <<"ϧ", <<"Ϧ">>>>, <<"ϩ", <<"Ϩ">>>>, <<"ϫ", <<"Ϫ">>>>,
       <<"ϭ", <<"Ϭ">>>>, <<"ϯ", <<"Ϯ">>>>, <<"ϰ", <<"Κ">>>>, <<"ϱ", <<"Ρ">>>>,
       <<"ϲ", <<"Ϲ">>>>, <<"ϳ", <<"U+037F">>>>, <<"ϵ", <<"Ε">>>>,
       <<"ϸ", <<"Ϸ">>>>, <<"ϻ", <<"Ϻ">>>>, <<"U+0430", <<"U+0410">>>>,
       <<"U+0431", <<"U+0411">>>>, <<"U+0432", <<"U+0412">>>>,
       <<"U+0433", <<"U+0413">>>>, <<"U+0434", <<"U+0414">>>>,
       <<"U+0435", <<"U+0415">>>>, <<"U+0436", <<"U+0416">>>>,
       <<"U+0437", <<"U+0417">>>>, <<"U+0438", <<"U+0418">>>>,
       <<"U+0439", <<"U+0419">>>>, <<"U+043A", <<"U+041A">>>>,
       <<"U+043B", <<"U+041B">>>>, <<"U+043C", <<"U+041C">>>>,
       <<"U+043D", <<"U+041D">>>>, <<"U+043E", <<"U+041E">>>>,
       <<"U+043F", <<"U+041F">>>>, <<"U+0440", <<"U+0420">>>>,
       <<"U+0441", <<"U+0421">>>>, <<"U+0442", <<"U+0422">>>>,
       <<"U+0443", <<"U+0423">>>>, <<"U+0444", <<"U+0424">>>>,
       <<"U+0445", <<"U+0425">>>>, <<"U+0446", <<"U+0426">>>>,
       <<"U+0447", <<"U+0427">>>>, <<"U+0448", <<"U+0428">>>>,
       <<"U+0449", <<"U+0429">>>>, <<"U+044A", <<"U+042A">>>>,
       <<"U+044B", <<"U+042B">>>>, <<"U+044C", <<"U+042C">>>>,
       <<"U+044D", <<"U+042D">>>>, <<"U+044E", <<"U+042E">>>>,
       <<"U+044F", <<"U+042F">>>>, <<"U+0450", <<"U+0400">>>>,
       <<"U+0451", <<"U+0401">>>>, <<"U+0452", <<"U+0402">>>>,
       <<"U+0453", <<"U+0403">>>>, <<"U+0454", <<"U+0404">>>>,
       <<"U+0455", <<"U+0405">>>>, <<"U+0456", <<"U+0406">>>>,
       <<"U+0457", <<"U+0407">>>>, <<"U+0458", <<"U+0408">>>>,
       <<"U+0459", <<"U+0409">>>>, <<"U+045A", <<"U+040A">>>>,
       <<"U+045B", <<"U+040B">>>>, <<"U+045C", <<"U+040C">>>>,
       <<"U+045D", <<"U+040D">>>>, <<"U+045E", <<"U+040E">>>>,
       <<"U+045F", <<"U+040F">>>>, <<"U+0461", <<"U+0460">>>>,
       <<"U+0463", <<"U+0462">>>>, <<"U+0465", <<"U+0464">>>>,
       <<"U+0467", <<"U+0466">>>>, <<"U+0469", <<"U+0468">>>>,
       <<"U+046B", <<"U+046A">>>>, <<"U+046D", <<"U+046C">>>>,
       <<"U+046F", <<"U+046E">>>>, <<"U+0471", <<"U+0470">>>>,
       <<"U+0473", <<"U+0472">>>>, <<"U+0475", <<"U+0474">>>>,
       <<"U+0477", <<"U+0476">>>>, <<"U+0479", <<"U+0478">>>>,
       <<"U+047B", <<"U+047A">>>>, <<"U+047D", <<"U+047C">>>>,
       <<"U+047F", <<"U+047E">>>>, <<"ҁ", <<"Ҁ">>>>, <<"ҋ", <<"Ҋ">>>>,
       <<"ҍ", <<"Ҍ">>>>, <<"ҏ", <<"Ҏ">>>>, <<"ґ", <<"Ґ">>>>, <<"ғ", <<"Ғ">>>>,
       <<"ҕ", <<"Ҕ">>>>, <<"җ", <<"Җ">>>>, <<"ҙ", <<"Ҙ">>>>, <<"қ", <<"Қ">>>>,
       <<"ҝ", <<"Ҝ">>>>, <<"ҟ", <<"Ҟ">>>>, <<"ҡ", <<"Ҡ">>>>, <<"ң", <<"Ң">>>>,
       <<"ҥ", <<"Ҥ">>>>, <<"ҧ", <<"Ҧ">>>>, <<"ҩ", <<"Ҩ">>>>, <<"ҫ", <<"Ҫ">>>>,
       <<"ҭ", <<"Ҭ">>>>, <<"ү", <<"Ү">>>>, <<"ұ", <<"Ұ">>>>, <<"ҳ", <<"Ҳ">>>>,
       <<"ҵ", <<"Ҵ">>>>, <<"ҷ", <<"Ҷ">>>>, <<"ҹ", <<"Ҹ">>>>, <<"һ", <<"Һ">>>>,
       <<"ҽ", <<"Ҽ">>>>, <<"ҿ", <<"Ҿ">>>>, <<"ӂ", <<"Ӂ">>>>, <<"ӄ", <<"Ӄ">>>>,
       <<"ӆ", <<"Ӆ">>>>, <<"ӈ", <<"Ӈ">>>>, <<"ӊ", <<"Ӊ">>>>, <<"ӌ", <<"Ӌ">>>>,
       <<"ӎ", <<"Ӎ">>>>, <<"ӏ", <<"Ӏ">>>>, <<"ӑ", <<"Ӑ">>>>, <<"ӓ", <<"Ӓ">>>>,
       <<"ӕ", <<"Ӕ">>>>, <<"ӗ", <<"Ӗ">>>>, <<"ә", <<"Ә">>>>, <<"ӛ", <<"Ӛ">>>>,
       <<"ӝ", <<"Ӝ">>>>, <<"ӟ", <<"Ӟ">>>>, <<"ӡ", <<"Ӡ">>>>, <<"ӣ", <<"Ӣ">>>>,
       <<"ӥ", <<"Ӥ">>>>, <<"ӧ", <<"Ӧ">>>>, <<"ө", <<"Ө">>>>, <<"ӫ", <<"Ӫ">>>>,
       <<"ӭ", <<"Ӭ">>>>, <<"ӯ", <<"Ӯ">>>>, <<"ӱ", <<"Ӱ">>>>, <<"ӳ", <<"Ӳ">>>>,
       <<"ӵ", <<"Ӵ">>>>, <<"ӷ", <<"Ӷ">>>>, <<"ӹ", <<"Ӹ">>>>, <<"ӻ", <<"Ӻ">>>>,
       <<"ӽ", <<"Ӽ">>>>, <<"ӿ", <<"Ӿ">>>>, <<"U+0501", <<"U+0500">>>>,
       <<"U+0503", <<"U+0502">>>>, <<"U+0505", <<"U+0504">>>>,
       <<"U+0507", <<"U+0506">>>>, <<"U+0509", <<"U+0508">>>>,
       <<"U+050B", <<"U+050A">>>>, <<"U+050D", <<"U+050C">>>>,
       <<"U+050F", <<"U+050E">>>>, <<"U+0511", <<"U+0510">>>>,
       <<"U+0513", <<"U+0512">>>>, <<"U+0515", <<"U+0514">>>>,
       <<"U+0517", <<"U+0516">>>>, <<"U+0519", <<"U+0518">>>>,
       <<"U+051B", <<"U+051A">>>>, <<"U+051D", <<"U+051C">>>>,
       <<"U+051F", <<"U+051E">>>>, <<"U+0521", <<"U+0520">>>>,
       <<"U+0523", <<"U+0522">>>>, <<"U+0525", <<"U+0524">>>>,
       <<"U+0527", <<"U+0526">>>>, <<"U+0529", <<"U+0528">>>>,
       <<"U+052B", <<"U+052A">>>>, <<"U+052D", <<"U+052C">>>>,
       <<"U+052F", <<"U+052E">>>>, <<"U+0561", <<"U+0531">>>>,
       <<"U+0562", <<"U+0532">>>>, <<"U+0563", <<"U+0533">>>>,
       <<"U+0564", <<"U+0534">>>>, <<"U+0565", <<"U+0535">>>>,
       <<"U+0566", <<"U+0536">>>>, <<"U+0567", <<"U+0537">>>>,
       <<"U+0568", <<"U+0538">>>>, <<"U+0569", <<"U+0539">>>>,
       <<"U+056A", <<"U+053A">>>>, <<"U+056B", <<"U+053B">>>>,
       <<"U+056C", <<"U+053C">>>>, <<"U+056D", <<"U+053D">>>>,
       <<"U+056E", <<"U+053E">>>>, <<"U+056F", <<"U+053F">>>>,
       <<"U+0570", <<"U+0540">>>>, <<"U+0571", <<"U+0541">>>>,
       <<"U+0572", <<"U+0542">>>>, <<"U+0573", <<"U+0543">>>>,
       <<"U+0574", <<"U+0544">>>>, <<"U+0575", <<"U+0545">>>>,
       <<"U+0576", <<"U+0546">>>>, <<"U+0577", <<"U+0547">>>>,
       <<"U+0578", <<"U+0548">>>>, <<"U+0579", <<"U+0549">>>>,
       <<"U+057A", <<"U+054A">>>>, <<"U+057B", <<"U+054B">>>>,
       <<"U+057C", <<"U+054C">>>>, <<"U+057D", <<"U+054D">>>>,
       <<"U+057E", <<"U+054E">>>>, <<"U+057F", <<"U+054F">>>>,
       <<"ր", <<"U+0550">>>>, <<"ց", <<"U+0551">>>>, <<"ւ", <<"U+0552">>>>,
       <<"փ", <<"U+0553">>>>, <<"ք", <<"U+0554">>>>, <<"օ", <<"U+0555">>>>,
       <<"ֆ", <<"U+0556">>>>, <<"և", <<"U+0535", "U+0552">>>>,
       <<"ა", <<"Ა">>>>, <<"ბ", <<"Ბ">>>>, <<"გ", <<"Გ">>>>, <<"დ", <<"Დ">>>>,
       <<"ე", <<"Ე">>>>, <<"ვ", <<"Ვ">>>>, <<"ზ", <<"Ზ">>>>, <<"თ", <<"Თ">>>>,
       <<"ი", <<"Ი">>>>, <<"კ", <<"Კ">>>>, <<"ლ", <<"Ლ">>>>, <<"მ", <<"Მ">>>>,
       <<"ნ", <<"Ნ">>>>, <<"ო", <<"Ო">>>>, <<"პ", <<"Პ">>>>, <<"ჟ", <<"Ჟ">>>>,
       <<"რ", <<"Რ">>>>, <<"ს", <<"Ს">>>>, <<"ტ", <<"Ტ">>>>, <<"უ", <<"Უ">>>>,
       <<"ფ", <<"Ფ">>>>, <<"ქ", <<"Ქ">>>>, <<"ღ", <<"Ღ">>>>, <<"ყ", <<"Ყ">>>>,
       <<"შ", <<"Შ">>>>, <<"ჩ", <<"Ჩ">>>>, <<"ც", <<"Ც">>>>, <<"ძ", <<"Ძ">>>>,
       <<"წ", <<"Წ">>>>, <<"ჭ", <<"Ჭ">>>>, <<"ხ", <<"Ხ">>>>, <<"ჯ", <<"Ჯ">>>>,
       <<"ჰ", <<"Ჰ">>>>, <<"ჱ", <<"Ჱ">>>>, <<"ჲ", <<"Ჲ">>>>, <<"ჳ", <<"Ჳ">>>>,
       <<"ჴ", <<"Ჴ">>>>, <<"ჵ", <<"Ჵ">>>>, <<"ჶ", <<"Ჶ">>>>, <<"ჷ", <<"Ჷ">>>>,
       <<"ჸ", <<"Ჸ">>>>, <<"ჹ", <<"Ჹ">>>>, <<"ჺ", <<"Ჺ">>>>, <<"ჽ", <<"Ჽ">>>>,
       <<"ჾ", <<"Ჾ">>>>, <<"ჿ", <<"Ჿ">>>>, <<"ᏸ", <<"Ᏸ">>>>, <<"ᏹ", <<"Ᏹ">>>>,
       <<"ᏺ", <<"Ᏺ">>>>, <<"ᏻ", <<"Ᏻ">>>>, <<"ᏼ", <<"Ᏼ">>>>, <<"ᏽ", <<"Ᏽ">>>>,
       <<"ᲀ", <<"U+0412">>>>, <<"ᲁ", <<"U+0414">>>>, <<"ᲂ", <<"U+041E">>>>,
       <<"ᲃ", <<"U+0421">>>>, <<"ᲄ", <<"U+0422">>>>, <<"ᲅ", <<"U+0422">>>>,
       <<"ᲆ", <<"U+042A">>>>, <<"ᲇ", <<"U+0462">>>>, <<"ᲈ", <<"U+A64A">>>>,
       <<"ᲊ", <<"Ᲊ">>>>, <<"U+1D79", <<"U+A77D">>>>,
       <<"U+1D7D", <<"U+2C63">>>>, <<"ᶎ", <<"Ᶎ">>>>,
       <<"U+1E01", <<"U+1E00">>>>, <<"U+1E03", <<"U+1E02">>>>,
       <<"U+1E05", <<"U+1E04">>>>, <<"U+1E07", <<"U+1E06">>>>,
       <<"U+1E09", <<"U+1E08">>>>, <<"U+1E0B", <<"U+1E0A">>>>,
       <<"U+1E0D", <<"U+1E0C">>>>, <<"U+1E0F", <<"U+1E0E">>>>,
       <<"U+1E11", <<"U+1E10">>>>, <<"U+1E13", <<"U+1E12">>>>,
       <<"U+1E15", <<"U+1E14">>>>, <<"U+1E17", <<"U+1E16">>>>,
       <<"U+1E19", <<"U+1E18">>>>, <<"U+1E1B", <<"U+1E1A">>>>,
       <<"U+1E1D", <<"U+1E1C">>>>, <<"U+1E1F", <<"U+1E1E">>>>,
       <<"U+1E21", <<"U+1E20">>>>, <<"U+1E23", <<"U+1E22">>>>,
       <<"U+1E25", <<"U+1E24">>>>, <<"U+1E27", <<"U+1E26">>>>,
       <<"U+1E29", <<"U+1E28">>>>, <<"U+1E2B", <<"U+1E2A">>>>,
       <<"U+1E2D", <<"U+1E2C">>>>, <<"U+1E2F", <<"U+1E2E">>>>,
       <<"U+1E31", <<"U+1E30">>>>, <<"U+1E33", <<"U+1E32">>>>,
       <<"U+1E35", <<"U+1E34">>>>, <<"U+1E37", <<"U+1E36">>>>,
       <<"U+1E39", <<"U+1E38">>>>, <<"U+1E3B", <<"U+1E3A">>>>,
       <<"U+1E3D", <<"U+1E3C">>>>, <<"U+1E3F", <<"U+1E3E">>>>,
       <<"U+1E41", <<"U+1E40">>>>, <<"U+1E43", <<"U+1E42">>>>,
       <<"U+1E45", <<"U+1E44">>>>, <<"U+1E47", <<"U+1E46">>>>,
       <<"U+1E49", <<"U+1E48">>>>, <<"U+1E4B", <<"U+1E4A">>>>,
       <<"U+1E4D", <<"U+1E4C">>>>, <<"U+1E4F", <<"U+1E4E">>>>,
       <<"U+1E51", <<"U+1E50">>>>, <<"U+1E53", <<"U+1E52">>>>,
       <<"U+1E55", <<"U+1E54">>>>, <<"U+1E57", <<"U+1E56">>>>,
       <<"U+1E59", <<"U+1E58">>>>, <<"U+1E5B", <<"U+1E5A">>>>,
       <<"U+1E5D", <<"U+1E5C">>>>, <<"U+1E5F", <<"U+1E5E">>>>,
       <<"U+1E61", <<"U+1E60">>>>, <<"U+1E63", <<"U+1E62">>>>,
       <<"U+1E65", <<"U+1E64">>>>, <<"U+1E67", <<"U+1E66">>>>,
       <<"U+1E69", <<"U+1E68">>>>, <<"U+1E6B", <<"U+1E6A">>>>,
       <<"U+1E6D", <<"U+1E6C">>>>, <<"U+1E6F", <<"U+1E6E">>>>,
       <<"U+1E71", <<"U+1E70">>>>, <<"U+1E73", <<"U+1E72">>>>,
       <<"U+1E75", <<"U+1E74">>>>, <<"U+1E77", <<"U+1E76">>>>,
       <<"U+1E79", <<"U+1E78">>>>, <<"U+1E7B", <<"U+1E7A">>>>,
       <<"U+1E7D", <<"U+1E7C">>>>, <<"U+1E7F", <<"U+1E7E">>>>,
       <<"ẁ", <<"Ẁ">>>>, <<"ẃ", <<"Ẃ">>>>, <<"ẅ", <<"Ẅ">>>>, <<"ẇ", <<"Ẇ">>>>,
       <<"ẉ", <<"Ẉ">>>>, <<"ẋ", <<"Ẋ">>>>, <<"ẍ", <<"Ẍ">>>>, <<"ẏ", <<"Ẏ">>>>,
       <<"ẑ", <<"Ẑ">>>>, <<"ẓ", <<"Ẓ">>>>, <<"ẕ", <<"Ẕ">>>>,
       <<"ẖ", <<"H", "U+0331">>>>, <<"ẗ", <<"T", "U+0308">>>>,
       <<"ẘ", <<"W", "U+030A">>>>, <<"ẙ", <<"Y", "U+030A">>>>,
       <<"ẚ", <<"A", "ʾ">>>>, <<"ẛ", <<"U+1E60">>>>, <<"ạ", <<"Ạ">>>>,
       <<"ả", <<"Ả">>>>, <<"ấ", <<"Ấ">>>>, <<"ầ", <<"Ầ">>>>, <<"ẩ", <<"Ẩ">>>>,
       <<"ẫ", <<"Ẫ">>>>, <<"ậ", <<"Ậ">>>>, <<"ắ", <<"Ắ">>>>, <<"ằ", <<"Ằ">>>>,
       <<"ẳ", <<"Ẳ">>>>, <<"ẵ", <<"Ẵ">>>>, <<"ặ", <<"Ặ">>>>, <<"ẹ", <<"Ẹ">>>>,
       <<"ẻ", <<"Ẻ">>>>, <<"ẽ", <<"Ẽ">>>>, <<"ế", <<"Ế">>>>, <<"ề", <<"Ề">>>>,
       <<"ể", <<"Ể">>>>, <<"ễ", <<"Ễ">>>>, <<"ệ", <<"Ệ">>>>, <<"ỉ", <<"Ỉ">>>>,
       <<"ị", <<"Ị">>>>, <<"ọ", <<"Ọ">>>>, <<"ỏ", <<"Ỏ">>>>, <<"ố", <<"Ố">>>>,
       <<"ồ", <<"Ồ">>>>, <<"ổ", <<"Ổ">>>>, <<"ỗ", <<"Ỗ">>>>, <<"ộ", <<"Ộ">>>>,
       <<"ớ", <<"Ớ">>>>, <<"ờ", <<"Ờ">>>>, <<"ở", <<"Ở">>>>, <<"ỡ", <<"Ỡ">>>>,
       <<"ợ", <<"Ợ">>>>, <<"ụ", <<"Ụ">>>>, <<"ủ", <<"Ủ">>>>, <<"ứ", <<"Ứ">>>>,
       <<"ừ", <<"Ừ">>>>, <<"ử", <<"Ử">>>>, <<"ữ", <<"Ữ">>>>, <<"ự", <<"Ự">>>>,
       <<"ỳ", <<"Ỳ">>>>, <<"ỵ", <<"Ỵ">>>>, <<"ỷ", <<"Ỷ">>>>, <<"ỹ", <<"Ỹ">>>>,
       <<"ỻ", <<"Ỻ">>>>, <<"ỽ", <<"Ỽ">>>>, <<"ỿ", <<"Ỿ">>>>,
       <<"U+1F00", <<"U+1F08">>>>, <<"U+1F01", <<"U+1F09">>>>,
       <<"U+1F02", <<"U+1F0A">>>>, <<"U+1F03", <<"U+1F0B">>>>,
       <<"U+1F04", <<"U+1F0C">>>>, <<"U+1F05", <<"U+1F0D">>>>,
       <<"U+1F06", <<"U+1F0E">>>>, <<"U+1F07", <<"U+1F0F">>>>,
       <<"U+1F10", <<"U+1F18">>>>, <<"U+1F11", <<"U+1F19">>>>,
       <<"U+1F12", <<"U+1F1A">>>>, <<"U+1F13", <<"U+1F1B">>>>,
       <<"U+1F14", <<"U+1F1C">>>>, <<"U+1F15", <<"U+1F1D">>>>,
       <<"U+1F20", <<"U+1F28">>>>, <<"U+1F21", <<"U+1F29">>>>,
       <<"U+1F22", <<"U+1F2A">>>>, <<"U+1F23", <<"U+1F2B">>>>,
       <<"U+1F24", <<"U+1F2C">>>>, <<"U+1F25", <<"U+1F2D">>>>,
       <<"U+1F26", <<"U+1F2E">>>>, <<"U+1F27", <<"U+1F2F">>>>,
       <<"U+1F30", <<"U+1F38">>>>, <<"U+1F31", <<"U+1F39">>>>,
       <<"U+1F32", <<"U+1F3A">>>>, <<"U+1F33", <<"U+1F3B">>>>,
       <<"U+1F34", <<"U+1F3C">>>>, <<"U+1F35", <<"U+1F3D">>>>,
       <<"U+1F36", <<"U+1F3E">>>>, <<"U+1F37", <<"U+1F3F">>>>,
       <<"U+1F40", <<"U+1F48">>>>, <<"U+1F41", <<"U+1F49">>>>,
       <<"U+1F42", <<"U+1F4A">>>>, <<"U+1F43", <<"U+1F4B">>>>,
       <<"U+1F44", <<"U+1F4C">>>>, <<"U+1F45", <<"U+1F4D">>>>,
       <<"U+1F50", <<"Υ", "U+0313">>>>, <<"U+1F51", <<"U+1F59">>>>,
       <<"U+1F52", <<"Υ", "U+0313", "U+0300">>>>, <<"U+1F53", <<"U+1F5B">>>>,
       <<"U+1F54", <<"Υ", "U+0313", "U+0301">>>>, <<"U+1F55", <<"U+1F5D">>>>,
       <<"U+1F56", <<"Υ", "U+0313", "U+0342">>>>, <<"U+1F57", <<"U+1F5F">>>>,
       <<"U+1F60", <<"U+1F68">>>>, <<"U+1F61", <<"U+1F69">>>>,
       <<"U+1F62", <<"U+1F6A">>>>, <<"U+1F63", <<"U+1F6B">>>>,
       <<"U+1F64", <<"U+1F6C">>>>, <<"U+1F65", <<"U+1F6D">>>>,
       <<"U+1F66", <<"U+1F6E">>>>, <<"U+1F67", <<"U+1F6F">>>>,
       <<"U+1F70", <<"Ὰ">>>>, <<"U+1F71", <<"Ά">>>>, <<"U+1F72", <<"Ὲ">>>>,
       <<"U+1F73", <<"Έ">>>>, <<"U+1F74", <<"Ὴ">>>>, <<"U+1F75", <<"Ή">>>>,
       <<"U+1F76", <<"Ὶ">>>>, <<"U+1F77", <<"Ί">>>>, <<"U+1F78", <<"Ὸ">>>>,
       <<"U+1F79", <<"Ό">>>>, <<"U+1F7A", <<"Ὺ">>>>, <<"U+1F7B", <<"Ύ">>>>,
       <<"U+1F7C", <<"Ὼ">>>>, <<"U+1F7D", <<"Ώ">>>>,
       <<"ᾀ", <<"U+1F08", "Ι">>>>, <<"ᾁ", <<"U+1F09", "Ι">>>>,
       <<"ᾂ", <<"U+1F0A", "Ι">>>>, <<"ᾃ", <<"U+1F0B", "Ι">>>>,
       <<"ᾄ", <<"U+1F0C", "Ι">>>>, <<"ᾅ", <<"U+1F0D", "Ι">>>>,
       <<"ᾆ", <<"U+1F0E", "Ι">>>>, <<"ᾇ", <<"U+1F0F", "Ι">>>>,
       <<"ᾈ", <<"U+1F08", "Ι">>>>, <<"ᾉ", <<"U+1F09", "Ι">>>>,
       <<"ᾊ", <<"U+1F0A", "Ι">>>>, <<"ᾋ", <<"U+1F0B", "Ι">>>>,
       <<"ᾌ", <<"U+1F0C", "Ι">>>>, <<"ᾍ", <<"U+1F0D", "Ι">>>>,
       <<"ᾎ", <<"U+1F0E", "Ι">>>>, <<"ᾏ", <<"U+1F0F", "Ι">>>>,
       <<"ᾐ", <<"U+1F28", "Ι">>>>, <<"ᾑ", <<"U+1F29", "Ι">>>>,
       <<"ᾒ", <<"U+1F2A", "Ι">>>>, <<"ᾓ", <<"U+1F2B", "Ι">>>>,
       <<"ᾔ", <<"U+1F2C", "Ι">>>>, <<"ᾕ", <<"U+1F2D", "Ι">>>>,
       <<"ᾖ", <<"U+1F2E", "Ι">>>>, <<"ᾗ", <<"U+1F2F", "Ι">>>>,
       <<"ᾘ", <<"U+1F28", "Ι">>>>, <<"ᾙ", <<"U+1F29", "Ι">>>>,
       <<"ᾚ", <<"U+1F2A", "Ι">>>>, <<"ᾛ", <<"U+1F2B", "Ι">>>>,
       <<"ᾜ", <<"U+1F2C", "Ι">>>>, <<"ᾝ", <<"U+1F2D", "Ι">>>>,
       <<"ᾞ", <<"U+1F2E", "Ι">>>>, <<"ᾟ", <<"U+1F2F", "Ι">>>>,
       <<"ᾠ", <<"U+1F68", "Ι">>>>, <<"ᾡ", <<"U+1F69", "Ι">>>>,
       <<"ᾢ", <<"U+1F6A", "Ι">>>>, <<"ᾣ", <<"U+1F6B", "Ι">>>>,
       <<"ᾤ", <<"U+1F6C", "Ι">>>>, <<"ᾥ", <<"U+1F6D", "Ι">>>>,
       <<"ᾦ", <<"U+1F6E", "Ι">>>>, <<"ᾧ", <<"U+1F6F", "Ι">>>>,
       <<"ᾨ", <<"U+1F68", "Ι">>>>, <<"ᾩ", <<"U+1F69", "Ι">>>>,
       <<"ᾪ", <<"U+1F6A", "Ι">>>>, <<"ᾫ", <<"U+1F6B", "Ι">>>>,
       <<"ᾬ", <<"U+1F6C", "Ι">>>>, <<"ᾭ", <<"U+1F6D", "Ι">>>>,
       <<"ᾮ", <<"U+1F6E", "Ι">>>>, <<"ᾯ", <<"U+1F6F", "Ι">>>>,
       <<"ᾰ", <<"Ᾰ">>>>, <<"ᾱ", <<"Ᾱ">>>>, <<"ᾲ", <<"Ὰ", "Ι">>>>,
       <<"ᾳ", <<"Α", "Ι">>>>, <<"ᾴ", <<"Ά", "Ι">>>>,
       <<"ᾶ", <<"Α", "U+0342">>>>, <<"ᾷ", <<"Α", "U+0342", "Ι">>>>,
       <<"ᾼ", <<"Α", "Ι">>>>, <<"ι", <<"Ι">>>>, <<"ῂ", <<"Ὴ", "Ι">>>>,
       <<"ῃ", <<"Η", "Ι">>>>, <<"ῄ", <<"Ή", "Ι">>>>,
       <<"ῆ", <<"Η", "U+0342">>>>, <<"ῇ", <<"Η", "U+0342", "Ι">>>>,
       <<"ῌ", <<"Η", "Ι">>>>, <<"ῐ", <<"Ῐ">>>>, <<"ῑ", <<"Ῑ">>>>,
       <<"ῒ", <<"Ι", "U+0308", "U+0300">>>>,
       <<"ΐ", <<"Ι", "U+0308", "U+0301">>>>, <<"ῖ", <<"Ι", "U+0342">>>>,
       <<"ῗ", <<"Ι", "U+0308", "U+0342">>>>, <<"ῠ", <<"Ῠ">>>>,
       <<"ῡ", <<"Ῡ">>>>, <<"ῢ", <<"Υ", "U+0308", "U+0300">>>>,
       <<"ΰ", <<"Υ", "U+0308", "U+0301">>>>, <<"ῤ", <<"Ρ", "U+0313">>>>,
       <<"ῥ", <<"Ῥ">>>>, <<"ῦ", <<"Υ", "U+0342">>>>,
       <<"ῧ", <<"Υ", "U+0308", "U+0342">>>>, <<"ῲ", <<"Ὼ", "Ι">>>>,
       <<"ῳ", <<"Ω", "Ι">>>>, <<"ῴ", <<"Ώ", "Ι">>>>,
       <<"ῶ", <<"Ω", "U+0342">>>>, <<"ῷ", <<"Ω", "U+0342", "Ι">>>>,
       <<"ῼ", <<"Ω", "Ι">>>>, <<"U+214E", <<"U+2132">>>>,
       <<"U+2170", <<"U+2160">>>>, <<"U+2171", <<"U+2161">>>>,
       <<"U+2172", <<"U+2162">>>>, <<"U+2173", <<"U+2163">>>>,
       <<"U+2174", <<"U+2164">>>>, <<"U+2175", <<"U+2165">>>>,
       <<"U+2176", <<"U+2166">>>>, <<"U+2177", <<"U+2167">>>>,
       <<"U+2178", <<"U+2168">>>>, <<"U+2179", <<"U+2169">>>>,
       <<"U+217A", <<"U+216A">>>>, <<"U+217B", <<"U+216B">>>>,
       <<"U+217C", <<"U+216C">>>>, <<"U+217D", <<"U+216D">>>>,
       <<"U+217E", <<"U+216E">>>>, <<"U+217F", <<"U+216F">>>>,
       <<"ↄ", <<"Ↄ">>>>, <<"ⓐ", <<"Ⓐ">>>>, <<"ⓑ", <<"Ⓑ">>>>, <<"ⓒ", <<"Ⓒ">>>>,
       <<"ⓓ", <<"Ⓓ">>>>, <<"ⓔ", <<"Ⓔ">>>>, <<"ⓕ", <<"Ⓕ">>>>, <<"ⓖ", <<"Ⓖ">>>>,
       <<"ⓗ", <<"Ⓗ">>>>, <<"ⓘ", <<"Ⓘ">>>>, <<"ⓙ", <<"Ⓙ">>>>, <<"ⓚ", <<"Ⓚ">>>>,
       <<"ⓛ", <<"Ⓛ">>>>, <<"ⓜ", <<"Ⓜ">>>>, <<"ⓝ", <<"Ⓝ">>>>, <<"ⓞ", <<"Ⓞ">>>>,
       <<"ⓟ", <<"Ⓟ">>>>, <<"ⓠ", <<"Ⓠ">>>>, <<"ⓡ", <<"Ⓡ">>>>, <<"ⓢ", <<"Ⓢ">>>>,
       <<"ⓣ", <<"Ⓣ">>>>, <<"ⓤ", <<"Ⓤ">>>>, <<"ⓥ", <<"Ⓥ">>>>, <<"ⓦ", <<"Ⓦ">>>>,
       <<"ⓧ", <<"Ⓧ">>>>, <<"ⓨ", <<"Ⓨ">>>>, <<"ⓩ", <<"Ⓩ">>>>,
       <<"U+2C30", <<"U+2C00">>>>, <<"U+2C31", <<"U+2C01">>>>,
       <<"U+2C32", <<"U+2C02">>>>, <<"U+2C33", <<"U+2C03">>>>,
       <<"U+2C34", <<"U+2C04">>>>, <<"U+2C35", <<"U+2C05">>>>,
       <<"U+2C36", <<"U+2C06">>>>, <<"U+2C37", <<"U+2C07">>>>,
       <<"U+2C38", <<"U+2C08">>>>, <<"U+2C39", <<"U+2C09">>>>,
       <<"U+2C3A", <<"U+2C0A">>>>, <<"U+2C3B", <<"U+2C0B">>>>,
       <<"U+2C3C", <<"U+2C0C">>>>, <<"U+2C3D", <<"U+2C0D">>>>,
       <<"U+2C3E", <<"U+2C0E">>>>, <<"U+2C3F", <<"U+2C0F">>>>,
       <<"U+2C40", <<"U+2C10">>>>, <<"U+2C41", <<"U+2C11">>>>,
       <<"U+2C42", <<"U+2C12">>>>, <<"U+2C43", <<"U+2C13">>>>,
       <<"U+2C44", <<"U+2C14">>>>, <<"U+2C45", <<"U+2C15">>>>,
       <<"U+2C46", <<"U+2C16">>>>, <<"U+2C47", <<"U+2C17">>>>,
       <<"U+2C48", <<"U+2C18">>>>, <<"U+2C49", <<"U+2C19">>>>,
       <<"U+2C4A", <<"U+2C1A">>>>, <<"U+2C4B", <<"U+2C1B">>>>,
       <<"U+2C4C", <<"U+2C1C">>>>, <<"U+2C4D", <<"U+2C1D">>>>,
       <<"U+2C4E", <<"U+2C1E">>>>, <<"U+2C4F", <<"U+2C1F">>>>,
       <<"U+2C50", <<"U+2C20">>>>, <<"U+2C51", <<"U+2C21">>>>,
       <<"U+2C52", <<"U+2C22">>>>, <<"U+2C53", <<"U+2C23">>>>,
       <<"U+2C54", <<"U+2C24">>>>, <<"U+2C55", <<"U+2C25">>>>,
       <<"U+2C56", <<"U+2C26">>>>, <<"U+2C57", <<"U+2C27">>>>,
       <<"U+2C58", <<"U+2C28">>>>, <<"U+2C59", <<"U+2C29">>>>,
       <<"U+2C5A", <<"U+2C2A">>>>, <<"U+2C5B", <<"U+2C2B">>>>,
       <<"U+2C5C", <<"U+2C2C">>>>, <<"U+2C5D", <<"U+2C2D">>>>,
       <<"U+2C5E", <<"U+2C2E">>>>, <<"U+2C5F", <<"U+2C2F">>>>,
       <<"U+2C61", <<"U+2C60">>>>, <<"U+2C65", <<"U+023A">>>>,
       <<"U+2C66", <<"U+023E">>>>, <<"U+2C68", <<"U+2C67">>>>,
       <<"U+2C6A", <<"U+2C69">>>>, <<"U+2C6C", <<"U+2C6B">>>>,
       <<"U+2C73", <<"U+2C72">>>>, <<"U+2C76", <<"U+2C75">>>>,
       <<"ⲁ", <<"Ⲁ">>>>, <<"ⲃ", <<"Ⲃ">>>>, <<"ⲅ", <<"Ⲅ">>>>, <<"ⲇ", <<"Ⲇ">>>>,
       <<"ⲉ", <<"Ⲉ">>>>, <<"ⲋ", <<"Ⲋ">>>>, <<"ⲍ", <<"Ⲍ">>>>, <<"ⲏ", <<"Ⲏ">>>>,
       <<"ⲑ", <<"Ⲑ">>>>, <<"ⲓ", <<"Ⲓ">>>>, <<"ⲕ", <<"Ⲕ">>>>, <<"ⲗ", <<"Ⲗ">>>>,
       <<"ⲙ", <<"Ⲙ">>>>, <<"ⲛ", <<"Ⲛ">>>>, <<"ⲝ", <<"Ⲝ">>>>, <<"ⲟ", <<"Ⲟ">>>>,
       <<"ⲡ", <<"Ⲡ">>>>, <<"ⲣ", <<"Ⲣ">>>>, <<"ⲥ", <<"Ⲥ">>>>, <<"ⲧ", <<"Ⲧ">>>>,
       <<"ⲩ", <<"Ⲩ">>>>, <<"ⲫ", <<"Ⲫ">>>>, <<"ⲭ", <<"Ⲭ">>>>, <<"ⲯ", <<"Ⲯ">>>>,
       <<"ⲱ", <<"Ⲱ">>>>, <<"ⲳ", <<"Ⲳ">>>>, <<"ⲵ", <<"Ⲵ">>>>, <<"ⲷ", <<"Ⲷ">>>>,
       <<"ⲹ", <<"Ⲹ">>>>, <<"ⲻ", <<"Ⲻ">>>>, <<"ⲽ", <<"Ⲽ">>>>, <<"ⲿ", <<"Ⲿ">>>>,
       <<"ⳁ", <<"Ⳁ">>>>, <<"ⳃ", <<"Ⳃ">>>>, <<"ⳅ", <<"Ⳅ">>>>, <<"ⳇ", <<"Ⳇ">>>>,
       <<"ⳉ", <<"Ⳉ">>>>, <<"ⳋ", <<"Ⳋ">>>>, <<"ⳍ", <<"Ⳍ">>>>, <<"ⳏ", <<"Ⳏ">>>>,
       <<"ⳑ", <<"Ⳑ">>>>, <<"ⳓ", <<"Ⳓ">>>>, <<"ⳕ", <<"Ⳕ">>>>, <<"ⳗ", <<"Ⳗ">>>>,
       <<"ⳙ", <<"Ⳙ">>>>, <<"ⳛ", <<"Ⳛ">>>>, <<"ⳝ", <<"Ⳝ">>>>, <<"ⳟ", <<"Ⳟ">>>>,
       <<"ⳡ", <<"Ⳡ">>>>, <<"ⳣ", <<"Ⳣ">>>>, <<"ⳬ", <<"Ⳬ">>>>, <<"ⳮ", <<"Ⳮ">>>>,
       <<"ⳳ", <<"Ⳳ">>>>, <<"U+2D00", <<"Ⴀ">>>>, <<"U+2D01", <<"Ⴁ">>>>,
       <<"U+2D02", <<"Ⴂ">>>>, <<"U+2D03", <<"Ⴃ">>>>, <<"U+2D04", <<"Ⴄ">>>>,
       <<"U+2D05", <<"Ⴅ">>>>, <<"U+2D06", <<"Ⴆ">>>>, <<"U+2D07", <<"Ⴇ">>>>,
       <<"U+2D08", <<"Ⴈ">>>>, <<"U+2D09", <<"Ⴉ">>>>, <<"U+2D0A", <<"Ⴊ">>>>,
       <<"U+2D0B", <<"Ⴋ">>>>, <<"U+2D0C", <<"Ⴌ">>>>, <<"U+2D0D", <<"Ⴍ">>>>,
       <<"U+2D0E", <<"Ⴎ">>>>, <<"U+2D0F", <<"Ⴏ">>>>, <<"U+2D10", <<"Ⴐ">>>>,
       <<"U+2D11", <<"Ⴑ">>>>, <<"U+2D12", <<"Ⴒ">>>>, <<"U+2D13", <<"Ⴓ">>>>,
       <<"U+2D14", <<"Ⴔ">>>>, <<"U+2D15", <<"Ⴕ">>>>, <<"U+2D16", <<"Ⴖ">>>>,
       <<"U+2D17", <<"Ⴗ">>>>, <<"U+2D18", <<"Ⴘ">>>>, <<"U+2D19", <<"Ⴙ">>>>,
       <<"U+2D1A", <<"Ⴚ">>>>, <<"U+2D1B", <<"Ⴛ">>>>, <<"U+2D1C", <<"Ⴜ">>>>,
       <<"U+2D1D", <<"Ⴝ">>>>, <<"U+2D1E", <<"Ⴞ">>>>, <<"U+2D1F", <<"Ⴟ">>>>,
       <<"U+2D20", <<"Ⴠ">>>>, <<"U+2D21", <<"Ⴡ">>>>, <<"U+2D22", <<"Ⴢ">>>>,
       <<"U+2D23", <<"Ⴣ">>>>, <<"U+2D24", <<"Ⴤ">>>>, <<"U+2D25", <<"Ⴥ">>>>,
       <<"U+2D27", <<"Ⴧ">>>>, <<"U+2D2D", <<"Ⴭ">>>>,
       <<"U+A641", <<"U+A640">>>>, <<"U+A643", <<"U+A642">>>>,
       <<"U+A645", <<"U+A644">>>>, <<"U+A647", <<"U+A646">>>>,
       <<"U+A649", <<"U+A648">>>>, <<"U+A64B", <<"U+A64A">>>>,
       <<"U+A64D", <<"U+A64C">>>>, <<"U+A64F", <<"U+A64E">>>>,
       <<"U+A651", <<"U+A650">>>>, <<"U+A653", <<"U+A652">>>>,
       <<"U+A655", <<"U+A654">>>>, <<"U+A657", <<"U+A656">>>>,
       <<"U+A659", <<"U+A658">>>>, <<"U+A65B", <<"U+A65A">>>>,
       <<"U+A65D", <<"U+A65C">>>>, <<"U+A65F", <<"U+A65E">>>>,
       <<"U+A661", <<"U+A660">>>>, <<"U+A663", <<"U+A662">>>>,
       <<"U+A665", <<"U+A664">>>>, <<"U+A667", <<"U+A666">>>>,
       <<"U+A669", <<"U+A668">>>>, <<"U+A66B", <<"U+A66A">>>>,
       <<"U+A66D", <<"U+A66C">>>>, <<"ꚁ", <<"Ꚁ">>>>, <<"ꚃ", <<"Ꚃ">>>>,
       <<"ꚅ", <<"Ꚅ">>>>, <<"ꚇ", <<"Ꚇ">>>>, <<"ꚉ", <<"Ꚉ">>>>, <<"ꚋ", <<"Ꚋ">>>>,
       <<"ꚍ", <<"Ꚍ">>>>, <<"ꚏ", <<"Ꚏ">>>>, <<"ꚑ", <<"Ꚑ">>>>, <<"ꚓ", <<"Ꚓ">>>>,
       <<"ꚕ", <<"Ꚕ">>>>, <<"ꚗ", <<"Ꚗ">>>>, <<"ꚙ", <<"Ꚙ">>>>, <<"ꚛ", <<"Ꚛ">>>>,
       <<"U+A723", <<"U+A722">>>>, <<"U+A725", <<"U+A724">>>>,
       <<"U+A727", <<"U+A726">>>>, <<"U+A729", <<"U+A728">>>>,
       <<"U+A72B", <<"U+A72A">>>>, <<"U+A72D", <<"U+A72C">>>>,
       <<"U+A72F", <<"U+A72E">>>>, <<"U+A733", <<"U+A732">>>>,
       <<"U+A735", <<"U+A734">>>>, <<"U+A737", <<"U+A736">>>>,
       <<"U+A739", <<"U+A738">>>>, <<"U+A73B", <<"U+A73A">>>>,
       <<"U+A73D", <<"U+A73C">>>>, <<"U+A73F", <<"U+A73E">>>>,
       <<"U+A741", <<"U+A740">>>>, <<"U+A743", <<"U+A742">>>>,
       <<"U+A745", <<"U+A744">>>>, <<"U+A747", <<"U+A746">>>>,
       <<"U+A749", <<"U+A748">>>>, <<"U+A74B", <<"U+A74A">>>>,
       <<"U+A74D", <<"U+A74C">>>>, <<"U+A74F", <<"U+A74E">>>>,
       <<"U+A751", <<"U+A750">>>>, <<"U+A753", <<"U+A752">>>>,
       <<"U+A755", <<"U+A754">>>>, <<"U+A757", <<"U+A756">>>>,
       <<"U+A759", <<"U+A758">>>>, <<"U+A75B", <<"U+A75A">>>>,
       <<"U+A75D", <<"U+A75C">>>>, <<"U+A75F", <<"U+A75E">>>>,
       <<"U+A761", <<"U+A760">>>>, <<"U+A763", <<"U+A762">>>>,
       <<"U+A765", <<"U+A764">>>>, <<"U+A767", <<"U+A766">>>>,
       <<"U+A769", <<"U+A768">>>>, <<"U+A76B", <<"U+A76A">>>>,
       <<"U+A76D", <<"U+A76C">>>>, <<"U+A76F", <<"U+A76E">>>>,
       <<"U+A77A", <<"U+A779">>>>, <<"U+A77C", <<"U+A77B">>>>,
       <<"U+A77F", <<"U+A77E">>>>, <<"ꞁ", <<"Ꞁ">>>>, <<"ꞃ", <<"Ꞃ">>>>,
       <<"ꞅ", <<"Ꞅ">>>>, <<"ꞇ", <<"Ꞇ">>>>, <<"ꞌ", <<"Ꞌ">>>>, <<"ꞑ", <<"Ꞑ">>>>,
       <<"ꞓ", <<"Ꞓ">>>>, <<"ꞔ", <<"Ꞔ">>>>, <<"ꞗ", <<"Ꞗ">>>>, <<"ꞙ", <<"Ꞙ">>>>,
       <<"ꞛ", <<"Ꞛ">>>>, <<"ꞝ", <<"Ꞝ">>>>, <<"ꞟ", <<"Ꞟ">>>>, <<"ꞡ", <<"Ꞡ">>>>,
       <<"ꞣ", <<"Ꞣ">>>>, <<"ꞥ", <<"Ꞥ">>>>, <<"ꞧ", <<"Ꞧ">>>>, <<"ꞩ", <<"Ꞩ">>>>,
       <<"ꞵ", <<"Ꞵ">>>>, <<"ꞷ", <<"Ꞷ">>>>, <<"ꞹ", <<"Ꞹ">>>>, <<"ꞻ", <<"Ꞻ">>>>,
       <<"ꞽ", <<"Ꞽ">>>>, <<"ꞿ", <<"Ꞿ">>>>, <<"ꟁ", <<"Ꟁ">>>>, <<"ꟃ", <<"Ꟃ">>>>,
       <<"ꟈ", <<"Ꟈ">>>>, <<"ꟊ", <<"Ꟊ">>>>, <<"ꟍ", <<"Ꟍ">>>>, <<"꟏", <<"꟎">>>>,
       <<"ꟑ", <<"Ꟑ">>>>, <<"ꟓ", <<"꟒">>>>, <<"ꟕ", <<"꟔">>>>, <<"ꟗ", <<"Ꟗ">>>>,
       <<"ꟙ", <<"Ꟙ">>>>, <<"ꟛ", <<"Ꟛ">>>>, <<"ꟶ", <<"Ꟶ">>>>,
       <<"U+AB53", <<"Ꭓ">>>>, <<"U+AB70", <<"Ꭰ">>>>, <<"U+AB71", <<"Ꭱ">>>>,
       <<"U+AB72", <<"Ꭲ">>>>, <<"U+AB73", <<"Ꭳ">>>>, <<"U+AB74", <<"Ꭴ">>>>,
       <<"U+AB75", <<"Ꭵ">>>>, <<"U+AB76", <<"Ꭶ">>>>, <<"U+AB77", <<"Ꭷ">>>>,
       <<"U+AB78", <<"Ꭸ">>>>, <<"U+AB79", <<"Ꭹ">>>>, <<"U+AB7A", <<"Ꭺ">>>>,
       <<"U+AB7B", <<"Ꭻ">>>>, <<"U+AB7C", <<"Ꭼ">>>>, <<"U+AB7D", <<"Ꭽ">>>>,
       <<"U+AB7E", <<"Ꭾ">>>>, <<"U+AB7F", <<"Ꭿ">>>>, <<"ꮀ", <<"Ꮀ">>>>,
       <<"ꮁ", <<"Ꮁ">>>>, <<"ꮂ", <<"Ꮂ">>>>, <<"ꮃ", <<"Ꮃ">>>>, <<"ꮄ", <<"Ꮄ">>>>,
       <<"ꮅ", <<"Ꮅ">>>>, <<"ꮆ", <<"Ꮆ">>>>, <<"ꮇ", <<"Ꮇ">>>>, <<"ꮈ", <<"Ꮈ">>>>,
       <<"ꮉ", <<"Ꮉ">>>>, <<"ꮊ", <<"Ꮊ">>>>, <<"ꮋ", <<"Ꮋ">>>>, <<"ꮌ", <<"Ꮌ">>>>,
       <<"ꮍ", <<"Ꮍ">>>>, <<"ꮎ", <<"Ꮎ">>>>, <<"ꮏ", <<"Ꮏ">>>>, <<"ꮐ", <<"Ꮐ">>>>,
       <<"ꮑ", <<"Ꮑ">>>>, <<"ꮒ", <<"Ꮒ">>>>, <<"ꮓ", <<"Ꮓ">>>>, <<"ꮔ", <<"Ꮔ">>>>,
       <<"ꮕ", <<"Ꮕ">>>>, <<"ꮖ", <<"Ꮖ">>>>, <<"ꮗ", <<"Ꮗ">>>>, <<"ꮘ", <<"Ꮘ">>>>,
       <<"ꮙ", <<"Ꮙ">>>>, <<"ꮚ", <<"Ꮚ">>>>, <<"ꮛ", <<"Ꮛ">>>>, <<"ꮜ", <<"Ꮜ">>>>,
       <<"ꮝ", <<"Ꮝ">>>>, <<"ꮞ", <<"Ꮞ">>>>, <<"ꮟ", <<"Ꮟ">>>>, <<"ꮠ", <<"Ꮠ">>>>,
       <<"ꮡ", <<"Ꮡ">>>>, <<"ꮢ", <<"Ꮢ">>>>, <<"ꮣ", <<"Ꮣ">>>>, <<"ꮤ", <<"Ꮤ">>>>,
       <<"ꮥ", <<"Ꮥ">>>>, <<"ꮦ", <<"Ꮦ">>>>, <<"ꮧ", <<"Ꮧ">>>>, <<"ꮨ", <<"Ꮨ">>>>,
       <<"ꮩ", <<"Ꮩ">>>>, <<"ꮪ", <<"Ꮪ">>>>, <<"ꮫ", <<"Ꮫ">>>>, <<"ꮬ", <<"Ꮬ">>>>,
       <<"ꮭ", <<"Ꮭ">>>>, <<"ꮮ", <<"Ꮮ">>>>, <<"ꮯ", <<"Ꮯ">>>>, <<"ꮰ", <<"Ꮰ">>>>,
       <<"ꮱ", <<"Ꮱ">>>>, <<"ꮲ", <<"Ꮲ">>>>, <<"ꮳ", <<"Ꮳ">>>>, <<"ꮴ", <<"Ꮴ">>>>,
       <<"ꮵ", <<"Ꮵ">>>>, <<"ꮶ", <<"Ꮶ">>>>, <<"ꮷ", <<"Ꮷ">>>>, <<"ꮸ", <<"Ꮸ">>>>,
       <<"ꮹ", <<"Ꮹ">>>>, <<"ꮺ", <<"Ꮺ">>>>, <<"ꮻ", <<"Ꮻ">>>>, <<"ꮼ", <<"Ꮼ">>>>,
       <<"ꮽ", <<"Ꮽ">>>>, <<"ꮾ", <<"Ꮾ">>>>, <<"ꮿ", <<"Ꮿ">>>>,
       <<"U+FB00", <<"F", "F">>>>, <<"U+FB01", <<"F", "I">>>>,
       <<"U+FB02", <<"F", "L">>>>, <<"U+FB03", <<"F", "F", "I">>>>,
       <<"U+FB04", <<"F", "F", "L">>>>, <<"U+FB05", <<"S", "T">>>>,
       <<"U+FB06", <<"S", "T">>>>, <<"U+FB13", <<"U+0544", "U+0546">>>>,
       <<"U+FB14", <<"U+0544", "U+0535">>>>,
       <<"U+FB15", <<"U+0544", "U+053B">>>>,
       <<"U+FB16", <<"U+054E", "U+0546">>>>,
       <<"U+FB17", <<"U+0544", "U+053D">>>>, <<"U+FF41", <<"U+FF21">>>>,
       <<"U+FF42", <<"U+FF22">>>>, <<"U+FF43", <<"U+FF23">>>>,
       <<"U+FF44", <<"U+FF24">>>>, <<"U+FF45", <<"U+FF25">>>>,
       <<"U+FF46", <<"U+FF26">>>>, <<"U+FF47", <<"U+FF27">>>>,
       <<"U+FF48", <<"U+FF28">>>>, <<"U+FF49", <<"U+FF29">>>>,
       <<"U+FF4A", <<"U+FF2A">>>>, <<"U+FF4B", <<"U+FF2B">>>>,
       <<"U+FF4C", <<"U+FF2C">>>>, <<"U+FF4D", <<"U+FF2D">>>>,
       <<"U+FF4E", <<"U+FF2E">>>>, <<"U+FF4F", <<"U+FF2F">>>>,
       <<"U+FF50", <<"U+FF30">>>>, <<"U+FF51", <<"U+FF31">>>>,
       <<"U+FF52", <<"U+FF32">>>>, <<"U+FF53", <<"U+FF33">>>>,
       <<"U+FF54", <<"U+FF34">>>>, <<"U+FF55", <<"U+FF35">>>>,
       <<"U+FF56", <<"U+FF36">>>>, <<"U+FF57", <<"U+FF37">>>>,
       <<"U+FF58", <<"U+FF38">>>>, <<"U+FF59", <<"U+FF39">>>>,
       <<"U+FF5A", <<"U+FF3A">>>>, <<"U+10428", <<"U+10400">>>>,
       <<"U+10429", <<"U+10401">>>>, <<"U+1042A", <<"U+10402">>>>,
       <<"U+1042B", <<"U+10403">>>>, <<"U+1042C", <<"U+10404">>>>,
       <<"U+1042D", <<"U+10405">>>>, <<"U+1042E", <<"U+10406">>>>,
       <<"U+1042F", <<"U+10407">>>>, <<"U+10430", <<"U+10408">>>>,
       <<"U+10431", <<"U+10409">>>>, <<"U+10432", <<"U+1040A">>>>,
       <<"U+10433", <<"U+1040B">>>>, <<"U+10434", <<"U+1040C">>>>,
       <<"U+10435", <<"U+1040D">>>>, <<"U+10436", <<"U+1040E">>>>,
       <<"U+10437", <<"U+1040F">>>>, <<"U+10438", <<"U+10410">>>>,
       <<"U+10439", <<"U+10411">>>>, <<"U+1043A", <<"U+10412">>>>,
       <<"U+1043B", <<"U+10413">>>>, <<"U+1043C", <<"U+10414">>>>,
       <<"U+1043D", <<"U+10415">>>>, <<"U+1043E", <<"U+10416">>>>,
       <<"U+1043F", <<"U+10417">>>>, <<"U+10440", <<"U+10418">>>>,
       <<"U+10441", <<"U+10419">>>>, <<"U+10442", <<"U+1041A">>>>,
       <<"U+10443", <<"U+1041B">>>>, <<"U+10444", <<"U+1041C">>>>,
       <<"U+10445", <<"U+1041D">>>>, <<"U+10446", <<"U+1041E">>>>,
       <<"U+10447", <<"U+1041F">>>>, <<"U+10448", <<"U+10420">>>>,
       <<"U+10449", <<"U+10421">>>>, <<"U+1044A", <<"U+10422">>>>,
       <<"U+1044B", <<"U+10423">>>>, <<"U+1044C", <<"U+10424">>>>,
       <<"U+1044D", <<"U+10425">>>>, <<"U+1044E", <<"U+10426">>>>,
       <<"U+1044F", <<"U+10427">>>>, <<"U+104D8", <<"U+104B0">>>>,
       <<"U+104D9", <<"U+104B1">>>>, <<"U+104DA", <<"U+104B2">>>>,
       <<"U+104DB", <<"U+104B3">>>>, <<"U+104DC", <<"U+104B4">>>>,
       <<"U+104DD", <<"U+104B5">>>>, <<"U+104DE", <<"U+104B6">>>>,
       <<"U+104DF", <<"U+104B7">>>>, <<"U+104E0", <<"U+104B8">>>>,
       <<"U+104E1", <<"U+104B9">>>>, <<"U+104E2", <<"U+104BA">>>>,
       <<"U+104E3", <<"U+104BB">>>>, <<"U+104E4", <<"U+104BC">>>>,
       <<"U+104E5", <<"U+104BD">>>>, <<"U+104E6", <<"U+104BE">>>>,
       <<"U+104E7", <<"U+104BF">>>>, <<"U+104E8", <<"U+104C0">>>>,
       <<"U+104E9", <<"U+104C1">>>>, <<"U+104EA", <<"U+104C2">>>>,
       <<"U+104EB", <<"U+104C3">>>>, <<"U+104EC", <<"U+104C4">>>>,
       <<"U+104ED", <<"U+104C5">>>>, <<"U+104EE", <<"U+104C6">>>>,
       <<"U+104EF", <<"U+104C7">>>>, <<"U+104F0", <<"U+104C8">>>>,
       <<"U+104F1", <<"U+104C9">>>>, <<"U+104F2", <<"U+104CA">>>>,
       <<"U+104F3", <<"U+104CB">>>>, <<"U+104F4", <<"U+104CC">>>>,
       <<"U+104F5", <<"U+104CD">>>>, <<"U+104F6", <<"U+104CE">>>>,
       <<"U+104F7", <<"U+104CF">>>>, <<"U+104F8", <<"U+104D0">>>>,
       <<"U+104F9", <<"U+104D1">>>>, <<"U+104FA", <<"U+104D2">>>>,
       <<"U+104FB", <<"U+104D3">>>>, <<"U+10597", <<"U+10570">>>>,
       <<"U+10598", <<"U+10571">>>>, <<"U+10599", <<"U+10572">>>>,
       <<"U+1059A", <<"U+10573">>>>, <<"U+1059B", <<"U+10574">>>>,
       <<"U+1059C", <<"U+10575">>>>, <<"U+1059D", <<"U+10576">>>>,
       <<"U+1059E", <<"U+10577">>>>, <<"U+1059F", <<"U+10578">>>>,
       <<"U+105A0", <<"U+10579">>>>, <<"U+105A1", <<"U+1057A">>>>,
       <<"U+105A3", <<"U+1057C">>>>, <<"U+105A4", <<"U+1057D">>>>,
       <<"U+105A5", <<"U+1057E">>>>, <<"U+105A6", <<"U+1057F">>>>,
       <<"U+105A7", <<"U+10580">>>>, <<"U+105A8", <<"U+10581">>>>,
       <<"U+105A9", <<"U+10582">>>>, <<"U+105AA", <<"U+10583">>>>,
       <<"U+105AB", <<"U+10584">>>>, <<"U+105AC", <<"U+10585">>>>,
       <<"U+105AD", <<"U+10586">>>>, <<"U+105AE", <<"U+10587">>>>,
       <<"U+105AF", <<"U+10588">>>>, <<"U+105B0", <<"U+10589">>>>,
       <<"U+105B1", <<"U+1058A">>>>, <<"U+105B3", <<"U+1058C">>>>,
       <<"U+105B4", <<"U+1058D">>>>, <<"U+105B5", <<"U+1058E">>>>,
       <<"U+105B6", <<"U+1058F">>>>, <<"U+105B7", <<"U+10590">>>>,
       <<"U+105B8", <<"U+10591">>>>, <<"U+105B9", <<"U+10592">>>>,
       <<"U+105BB", <<"U+10594">>>>, <<"U+105BC", <<"U+10595">>>>,
       <<"U+10CC0", <<"U+10C80">>>>, <<"U+10CC1", <<"U+10C81">>>>,
       <<"U+10CC2", <<"U+10C82">>>>, <<"U+10CC3", <<"U+10C83">>>>,
       <<"U+10CC4", <<"U+10C84">>>>, <<"U+10CC5", <<"U+10C85">>>>,
       <<"U+10CC6", <<"U+10C86">>>>, <<"U+10CC7", <<"U+10C87">>>>,
       <<"U+10CC8", <<"U+10C88">>>>, <<"U+10CC9", <<"U+10C89">>>>,
       <<"U+10CCA", <<"U+10C8A">>>>, <<"U+10CCB", <<"U+10C8B">>>>,
       <<"U+10CCC", <<"U+10C8C">>>>, <<"U+10CCD", <<"U+10C8D">>>>,
       <<"U+10CCE", <<"U+10C8E">>>>, <<"U+10CCF", <<"U+10C8F">>>>,
       <<"U+10CD0", <<"U+10C90">>>>, <<"U+10CD1", <<"U+10C91">>>>,
       <<"U+10CD2", <<"U+10C92">>>>, <<"U+10CD3", <<"U+10C93">>>>,
       <<"U+10CD4", <<"U+10C94">>>>, <<"U+10CD5", <<"U+10C95">>>>,
       <<"U+10CD6", <<"U+10C96">>>>, <<"U+10CD7", <<"U+10C97">>>>,
       <<"U+10CD8", <<"U+10C98">>>>, <<"U+10CD9", <<"U+10C99">>>>,
       <<"U+10CDA", <<"U+10C9A">>>>, <<"U+10CDB", <<"U+10C9B">>>>,
       <<"U+10CDC", <<"U+10C9C">>>>, <<"U+10CDD", <<"U+10C9D">>>>,
       <<"U+10CDE", <<"U+10C9E">>>>, <<"U+10CDF", <<"U+10C9F">>>>,
       <<"U+10CE0", <<"U+10CA0">>>>, <<"U+10CE1", <<"U+10CA1">>>>,
       <<"U+10CE2", <<"U+10CA2">>>>, <<"U+10CE3", <<"U+10CA3">>>>,
       <<"U+10CE4", <<"U+10CA4">>>>, <<"U+10CE5", <<"U+10CA5">>>>,
       <<"U+10CE6", <<"U+10CA6">>>>, <<"U+10CE7", <<"U+10CA7">>>>,
       <<"U+10CE8", <<"U+10CA8">>>>, <<"U+10CE9", <<"U+10CA9">>>>,
       <<"U+10CEA", <<"U+10CAA">>>>, <<"U+10CEB", <<"U+10CAB">>>>,
       <<"U+10CEC", <<"U+10CAC">>>>, <<"U+10CED", <<"U+10CAD">>>>,
       <<"U+10CEE", <<"U+10CAE">>>>, <<"U+10CEF", <<"U+10CAF">>>>,
       <<"U+10CF0", <<"U+10CB0">>>>, <<"U+10CF1", <<"U+10CB1">>>>,
       <<"U+10CF2", <<"U+10CB2">>>>, <<"U+10D70", <<"U+10D50">>>>,
       <<"U+10D71", <<"U+10D51">>>>, <<"U+10D72", <<"U+10D52">>>>,
       <<"U+10D73", <<"U+10D53">>>>, <<"U+10D74", <<"U+10D54">>>>,
       <<"U+10D75", <<"U+10D55">>>>, <<"U+10D76", <<"U+10D56">>>>,
       <<"U+10D77", <<"U+10D57">>>>, <<"U+10D78", <<"U+10D58">>>>,
       <<"U+10D79", <<"U+10D59">>>>, <<"U+10D7A", <<"U+10D5A">>>>,
       <<"U+10D7B", <<"U+10D5B">>>>, <<"U+10D7C", <<"U+10D5C">>>>,
       <<"U+10D7D", <<"U+10D5D">>>>, <<"U+10D7E", <<"U+10D5E">>>>,
       <<"U+10D7F", <<"U+10D5F">>>>, <<"U+10D80", <<"U+10D60">>>>,
       <<"U+10D81", <<"U+10D61">>>>, <<"U+10D82", <<"U+10D62">>>>,
       <<"U+10D83", <<"U+10D63">>>>, <<"U+10D84", <<"U+10D64">>>>,
       <<"U+10D85", <<"U+10D65">>>>, <<"U+118C0", <<"U+118A0">>>>,
       <<"U+118C1", <<"U+118A1">>>>, <<"U+118C2", <<"U+118A2">>>>,
       <<"U+118C3", <<"U+118A3">>>>, <<"U+118C4", <<"U+118A4">>>>,
       <<"U+118C5", <<"U+118A5">>>>, <<"U+118C6", <<"U+118A6">>>>,
       <<"U+118C7", <<"U+118A7">>>>, <<"U+118C8", <<"U+118A8">>>>,
       <<"U+118C9", <<"U+118A9">>>>, <<"U+118CA", <<"U+118AA">>>>,
       <<"U+118CB", <<"U+118AB">>>>, <<"U+118CC", <<"U+118AC">>>>,
       <<"U+118CD", <<"U+118AD">>>>, <<"U+118CE", <<"U+118AE">>>>,
       <<"U+118CF", <<"U+118AF">>>>, <<"U+118D0", <<"U+118B0">>>>,
       <<"U+118D1", <<"U+118B1">>>>, <<"U+118D2", <<"U+118B2">>>>,
       <<"U+118D3", <<"U+118B3">>>>, <<"U+118D4", <<"U+118B4">>>>,
       <<"U+118D5", <<"U+118B5">>>>, <<"U+118D6", <<"U+118B6">>>>,
       <<"U+118D7", <<"U+118B7">>>>, <<"U+118D8", <<"U+118B8">>>>,
       <<"U+118D9", <<"U+118B9">>>>, <<"U+118DA", <<"U+118BA">>>>,
       <<"U+118DB", <<"U+118BB">>>>, <<"U+118DC", <<"U+118BC">>>>,
       <<"U+118DD", <<"U+118BD">>>>, <<"U+118DE", <<"U+118BE">>>>,
       <<"U+118DF", <<"U+118BF">>>>, <<"U+16E60", <<"U+16E40">>>>,
       <<"U+16E61", <<"U+16E41">>>>, <<"U+16E62", <<"U+16E42">>>>,
       <<"U+16E63", <<"U+16E43">>>>, <<"U+16E64", <<"U+16E44">>>>,
       <<"U+16E65", <<"U+16E45">>>>, <<"U+16E66", <<"U+16E46">>>>,
       <<"U+16E67", <<"U+16E47">>>>, <<"U+16E68", <<"U+16E48">>>>,
       <<"U+16E69", <<"U+16E49">>>>, <<"U+16E6A", <<"U+16E4A">>>>,
       <<"U+16E6B", <<"U+16E4B">>>>, <<"U+16E6C", <<"U+16E4C">>>>,
       <<"U+16E6D", <<"U+16E4D">>>>, <<"U+16E6E", <<"U+16E4E">>>>,
       <<"U+16E6F", <<"U+16E4F">>>>, <<"U+16E70", <<"U+16E50">>>>,
       <<"U+16E71", <<"U+16E51">>>>, <<"U+16E72", <<"U+16E52">>>>,
       <<"U+16E73", <<"U+16E53">>>>, <<"U+16E74", <<"U+16E54">>>>,
       <<"U+16E75", <<"U+16E55">>>>, <<"U+16E76", <<"U+16E56">>>>,
       <<"U+16E77", <<"U+16E57">>>>, <<"U+16E78", <<"U+16E58">>>>,
       <<"U+16E79", <<"U+16E59">>>>, <<"U+16E7A", <<"U+16E5A">>>>,
       <<"U+16E7B", <<"U+16E5B">>>>, <<"U+16E7C", <<"U+16E5C">>>>,
       <<"U+16E7D", <<"U+16E5D">>>>, <<"U+16E7E", <<"U+16E5E">>>>,
       <<"U+16E7F", <<"U+16E5F">>>>, <<"U+16EBB", <<"U+16EA0">>>>,
       <<"U+16EBC", <<"U+16EA1">>>>, <<"U+16EBD", <<"U+16EA2">>>>,
       <<"U+16EBE", <<"U+16EA3">>>>, <<"U+16EBF", <<"U+16EA4">>>>,
       <<"U+16EC0", <<"U+16EA5">>>>, <<"U+16EC1", <<"U+16EA6">>>>,
       <<"U+16EC2", <<"U+16EA7">>>>, <<"U+16EC3", <<"U+16EA8">>>>,
       <<"U+16EC4", <<"U+16EA9">>>>, <<"U+16EC5", <<"U+16EAA">>>>,
       <<"U+16EC6", <<"U+16EAB">>>>, <<"U+16EC7", <<"U+16EAC">>>>,
       <<"U+16EC8", <<"U+16EAD">>>>, <<"U+16EC9", <<"U+16EAE">>>>,
       <<"U+16ECA", <<"U+16EAF">>>>, <<"U+16ECB", <<"U+16EB0">>>>,
       <<"U+16ECC", <<"U+16EB1">>>>, <<"U+16ECD", <<"U+16EB2">>>>,
       <<"U+16ECE", <<"U+16EB3">>>>, <<"U+16ECF", <<"U+16EB4">>>>,
       <<"U+16ED0", <<"U+16EB5">>>>, <<"U+16ED1", <<"U+16EB6">>>>,
       <<"U+16ED2", <<"U+16EB7">>>>, <<"U+16ED3", <<"U+16EB8">>>>,
       <<"U+1E922", <<"U+1E900">>>>, <<"U+1E923", <<"U+1E901">>>>,
       <<"U+1E924", <<"U+1E902">>>>, <<"U+1E925", <<"U+1E903">>>>,
       <<"U+1E926", <<"U+1E904">>>>, <<"U+1E927", <<"U+1E905">>>>,
       <<"U+1E928", <<"U+1E906">>>>, <<"U+1E929", <<"U+1E907">>>>,
       <<"U+1E92A", <<"U+1E908">>>>, <<"U+1E92B", <<"U+1E909">>>>,
       <<"U+1E92C", <<"U+1E90A">>>>, <<"U+1E92D", <<"U+1E90B">>>>,
       <<"U+1E92E", <<"U+1E90C">>>>, <<"U+1E92F", <<"U+1E90D">>>>,
       <<"U+1E930", <<"U+1E90E">>>>, <<"U+1E931", <<"U+1E90F">>>>,
       <<"U+1E932", <<"U+1E910">>>>, <<"U+1E933", <<"U+1E911">>>>,
       <<"U+1E934", <<"U+1E912">>>>, <<"U+1E935", <<"U+1E913">>>>,
       <<"U+1E936", <<"U+1E914">>>>, <<"U+1E937", <<"U+1E915">>>>,
       <<"U+1E938", <<"U+1E916">>>>, <<"U+1E939", <<"U+1E917">>>>,
       <<"U+1E93A", <<"U+1E918">>>>, <<"U+1E93B", <<"U+1E919">>>>,
       <<"U+1E93C", <<"U+1E91A">>>>, <<"U+1E93D", <<"U+1E91B">>>>,
       <<"U+1E93E", <<"U+1E91C">>>>, <<"U+1E93F", <<"U+1E91D">>>>,
       <<"U+1E940", <<"U+1E91E">>>>, <<"U+1E941", <<"U+1E91F">>>>,
       <<"U+1E942", <<"U+1E920">>>>, <<"U+1E943", <<"U+1E921">>>>
    >>

UpperCaseOf ==
    [c \in {UpperCaseMapping[i][1] : i \in DOMAIN UpperCaseMapping} |->
        UpperCaseMapping[CHOOSE i \in DOMAIN UpperCaseMapping :
                            UpperCaseMapping[i][1] = c][2]]

\* the upper case form of one character, as a string
ToUpperChar(c) == IF c \in DOMAIN UpperCaseOf THEN UpperCaseOf[c] ELSE <<c>>

\* String.prototype.toUpperCase
RECURSIVE ToUpperCase(_)
ToUpperCase(s) ==
    IF s = <<>> THEN <<>>
    ELSE ToUpperChar(Head(s)) \o ToUpperCase(Tail(s))

\* String.prototype.includes
Includes(s, sub) ==
    \E i \in 0..(Len(s) - Len(sub)) : SubSeq(s, i + 1, i + Len(sub)) = sub

\* the characters that trim() removes: the white space and the line
\* terminators of the language.  Those that a string of this module cannot
\* hold are written by the name of their code point.
WhiteSpace ==
    { " ", "\t", "\n", "\r", "\f", "", " ", "﻿", " ",
      "U+2000", "U+2001", "U+2002", "U+2003", "U+2004", "U+2005", "U+2006",
      "U+2007", "U+2008", "U+2009", "U+200A", "U+2028", "U+2029", "U+202F",
      "U+205F", "U+3000" }

IsSpace(c) == c \in WhiteSpace

RECURSIVE TrimStart(_)
TrimStart(s) ==
    IF s # <<>> /\ IsSpace(Head(s)) THEN TrimStart(Tail(s)) ELSE s

RECURSIVE TrimEnd(_)
TrimEnd(s) ==
    IF s # <<>> /\ IsSpace(s[Len(s)])
    THEN TrimEnd(SubSeq(s, 1, Len(s) - 1))
    ELSE s

\* String.prototype.trim
Trim(s) == TrimEnd(TrimStart(s))

POSITIVE == <<"P","O","S","I","T","I","V","E">>
NEGATIVE == <<"N","E","G","A","T","I","V","E">>

DigitChars == <<"0","1","2","3","4","5","6","7","8","9">>

RECURSIVE NatToChars(_)
NatToChars(n) ==
    IF n < 10 THEN <<DigitChars[n + 1]>>
    ELSE NatToChars(n \div 10) \o <<DigitChars[(n % 10) + 1]>>

\* the digits cut after the first decimal
ToFixed1_truncate(score) ==
    LET tenths == score \div Thousandth
    IN  NatToChars(tenths \div 10) \o <<".">> \o NatToChars(tenths % 10)

\* line 179, (score * 100).toFixed(1): score * 100 is score / Thousandth
\* tenths; toFixed takes the nearest number of tenths, the larger one when
\* two are as near
ToFixed1(score) ==
    LET tenths == (2 * score + Thousandth) \div (2 * Thousandth)
    IN  NatToChars(tenths \div 10) \o <<".">> \o NatToChars(tenths % 10)

(***************************************************************************)
(* analyzeSentiment, as a function of the engine handle, the text and what *)
(* the engine call produces.                                               *)
(***************************************************************************)
Err(msg) == [kind |-> "error", message |-> msg]
Ok(v) == [kind |-> "ok", value |-> v]

\* what `await sentimentPipeline(text)' can produce: an array of
\* {label, score}, a value that is not an array, or a rejection
EngineArray(items) == [kind |-> "array", items |-> items]
EngineOther == [kind |-> "other"]
EngineThrows == [kind |-> "throws", message |-> "engine failure"]

Raw(l, s) == [label |-> l, score |-> s]

\* line 163: the label that is compared and returned
NormalizedLabel(primaryResult) == ToUpperCase(primaryResult.label)

\* the comparison written with >= instead of >
SentimentOf_ge(label, score) ==
    IF Includes(label, POSITIVE) /\ score >= Half THEN "positive"
    ELSE IF Includes(label, NEGATIVE) /\ score >= Half THEN "negative"
    ELSE "neutral"

\* the if / else if / else of lines 166-173 on the uppercased label
SentimentOf(label, score) ==
    IF Includes(label, POSITIVE) /\ score > Half THEN "positive"
    ELSE IF Includes(label, NEGATIVE) /\ score > Half THEN "negative"
    ELSE "neutral"

\* the emptiness check without trim()
AnalyzeSentimentGuard_noTrim(pipeline, text) ==
    IF ~pipeline THEN Err("Sentiment model not loaded")
    ELSE IF text = <<>> THEN Err("Review text is empty")
    ELSE Null

\* lines 144-150: the checks made before the engine is invoked;
\* Null when the engine is invoked
AnalyzeSentimentGuard(pipeline, text) ==
    IF ~pipeline THEN Err("Sentiment model not loaded")
    ELSE IF text = <<>> \/ Len(Trim(text)) = 0 THEN Err("Review text is empty")
    ELSE Null

\* an answer without a first entry turned into a neutral result
AnalyzeSentimentResult_default(results) ==
    IF results.kind = "throws" THEN Err(results.message)
    ELSE IF results.kind # "array" \/ Len(results.items) = 0
         THEN Ok([label |-> <<>>,
                  score |-> 0,
                  sentiment |-> "neutral",
                  confidence |-> ToFixed1(0)])
    ELSE LET primaryResult == results.items[1]
             label == NormalizedLabel(primaryResult)
             score == primaryResult.score
         IN  Ok([label |-> label,
                 score |-> score,
                 sentiment |-> SentimentOf(label, score),
                 confidence |-> ToFixed1(score)])

\* lines 153-180: from the engine's answer to the returned object
AnalyzeSentimentResult(results) ==
    IF results.kind = "throws" THEN Err(results.message)
    ELSE IF results.kind # "array" \/ Len(results.items) = 0
         THEN Err("Invalid analysis results")
    ELSE LET primaryResult == results.items[1]
             label == NormalizedLabel(primaryResult)
             score == primaryResult.score
         IN  Ok([label |-> label,
                 score |-> score,
                 sentiment |-> SentimentOf(label, score),
                 confidence |-> ToFixed1(score)])

AnalyzeSentiment(pipeline, text, results) ==
    IF AnalyzeSentimentGuard(pipeline, text) # Null
    THEN AnalyzeSentimentGuard(pipeline, text)
    ELSE AnalyzeSentimentResult(results)

(***************************************************************************)
(* State of the page.                                                      *)
(***************************************************************************)
VARIABLES
    \* module-level state, lines 10-14
    reviews, sentimentPipeline, currentAnalysis, modelLoaded, reviewsLoaded,
    \* configuration, line 5: TRUE when GOOGLE_SCRIPT_URL has been replaced
    \* by a deployed URL, FALSE when it is still the placeholder
    urlConfigured,
    \* the two promises awaited at startup and the handler awaiting them
    reviewsPromise, modelPromise, initPc,
    \* status panels
    reviewsStatus, modelStatus,
    \* buttons: disabled property, caption, click listeners
    analyzeBtnDisabled, analyzeBtnText, analyzeListener,
    logBtnDisabled, logBtnText, logBtnStyle, logListener,
    \* line 317: the response of the fetch that resolved, held by the log
    \* handler until its timer of line 335 has run; [ack, appended] is what
    \* the endpoint answered and whether it appended a row, which the page
    \* cannot read from an opaque response
    response,
    \* error banner and its pending hideError timers
    errorShown, errorMessage, hideTimers,
    \* review and result panels (the one-second pulse animation of the
    \* review panel is left out: it changes a CSS class only)
    display,
    \* the analyze handler suspended at `await analyzeSentiment(review)'
    analyzing,
    \* log handlers suspended at `await fetch(...)', each with the record it
    \* handed to fetch and (history) the engine answer that was the last to
    \* give a result then; pending reset timers
    logsInFlight, resetTimers,
    \* the clock read by new Date()
    now,
    \* history: the last engine answer that gave a result and when it came,
    \* whether the markup has the log button disabled
    lastRaw, logBtnStartsDisabled,
    \* direct calls of analyzeSentiment (the exported function)
    fnIn, fnOut,
    \* the endpoint: the spreadsheet it writes to and its doPost executions
    spreadsheet, req,
    \* the execution of setupSheet, run by hand from the script editor
    setup

moduleVars == <<reviews, sentimentPipeline, currentAnalysis, modelLoaded,
                reviewsLoaded, urlConfigured>>
startupVars == <<reviewsPromise, modelPromise, initPc, reviewsStatus,
                 modelStatus>>
analyzeBtnVars == <<analyzeBtnDisabled, analyzeBtnText, analyzeListener>>
logBtnVars == <<logBtnDisabled, logBtnText, logBtnStyle, logListener>>
errorVars == <<errorShown, errorMessage, hideTimers>>
displayVars == <<display>>
asyncVars == <<analyzing, logsInFlight, resetTimers>>
historyVars == <<lastRaw, logBtnStartsDisabled>>
fnVars == <<fnIn, fnOut>>
serverVars == <<spreadsheet, req, setup>>
pageVars == <<moduleVars, startupVars, analyzeBtnVars, logBtnVars, response, errorVars,
              displayVars, asyncVars, now, historyVars>>

vars == <<moduleVars, startupVars, analyzeBtnVars, logBtnVars, response, errorVars,
          displayVars, asyncVars, now, historyVars, fnVars,
                   serverVars>>

CaptionAnalyze == "Analyze Random Review"
CaptionAnalyzing == "Analyzing..."
CaptionLog == "Log to Google Sheets"
CaptionLogging == "Logging..."
CaptionLogged == "Logged Successfully"

\* The state after the script has been evaluated.  The page markup is not
\* part of the sources: the analyze button is disabled in it (line 35 is
\* what enables it), the log button is disabled in it or not, and the URL
\* of line 5 is the placeholder or has been replaced as its comment asks.
InitPageState ==
    /\ sentimentPipeline = FALSE
    /\ currentAnalysis = Null
    /\ modelLoaded = FALSE
    /\ reviewsLoaded = FALSE
    /\ urlConfigured \in BOOLEAN
    /\ reviewsPromise = "pending"
    /\ modelPromise = "pending"
    /\ initPc = "awaiting"
    /\ reviewsStatus = "loading"
    /\ modelStatus = "loading"
    /\ analyzeBtnDisabled = TRUE
    /\ analyzeBtnText = CaptionAnalyze
    /\ analyzeListener = FALSE
    /\ logBtnStartsDisabled \in BOOLEAN
    /\ logBtnDisabled = logBtnStartsDisabled
    /\ logBtnText = CaptionLog
    /\ logBtnStyle = ""
    /\ response = Null
    /\ logListener = FALSE
    /\ errorShown = FALSE
    /\ errorMessage = ""
    /\ hideTimers = 0
    /\ display = Null
    /\ analyzing = Null
    /\ logsInFlight = <<>>
    /\ resetTimers = 0
    /\ now = 0
    /\ lastRaw = Null

InitPage ==
    /\ reviews = <<>>
    /\ InitPageState

\* no request has reached the endpoint
NoRequests ==
    /\ spreadsheet = [opens |-> FALSE, exists |-> FALSE, id |-> 0,
                      logs |-> <<>>]
    /\ req = <<>>
    /\ setup = [pc |-> "idle", runs |-> 0, after |-> 0]

Init ==
    /\ InitPage
    /\ fnIn = Null
    /\ fnOut = Null
    /\ NoRequests

(***************************************************************************)
(* Inputs of the page: datasets, engine answers.                           *)
(***************************************************************************)
TextGood == <<"o","k">>
TextBad == <<" ","b","a","d">>
TextBlank == <<" ","\t","\r">>
TextEmpty == <<>>

\* the `text' column of the parsed rows; a row without the column is TextEmpty
Datasets == { <<>>,
              <<TextBlank, TextEmpty>>,
              <<TextEmpty, TextGood, TextBlank, TextBad>> }

FetchOutcomes ==
    {[kind |-> "network"], [kind |-> "status"]}
        \cup {[kind |-> "rows", rows |-> d] : d \in Datasets}

LabelLowerPositive == <<"p","o","s","i","t","i","v","e">>
LabelMixedNegative == <<"N","e","g","a","t","i","v","e">>
LabelStars == <<"5"," ","s","t","a","r","s">>
LabelBoth == NEGATIVE \o <<"_">> \o POSITIVE
\* labels with letters outside ASCII: dotless i, long s, sharp s, e acute
LabelDotless == <<"p","o","s","U+0131","t","U+0131","v","e">>
LabelLongS == <<"p","o","U+017F","i","t","i","v","e">>
LabelSharp == <<"n","e","g","ß","a","t","i","v","e">>
LabelAccent == <<"é">>

\* what the engine gives for a text each time it is called: its
\* classification of that text, or one of the failures
Classification(text) ==
    IF text = TextGood
    THEN EngineArray(<<Raw(POSITIVE, 980 * Thousandth)>>)
    ELSE EngineArray(<<Raw(LabelMixedNegative, Half), Raw(POSITIVE, Half)>>)

\* line 153: what the call of the engine can give.  A page that is run
\* with an engine made for the test gets the answer of that engine, fnIn.
EngineOutputs(text) ==
    IF fnIn # Null THEN {fnIn.results}
    ELSE { EngineThrows, EngineOther, EngineArray(<<>>), Classification(text) }

(***************************************************************************)
(* showError / hideError, lines 354-368.  hideTimers is the number of       *)
(* pending hideError timers; an error is shown while fewer than            *)
(* MaxHideTimers are pending.                                              *)
(***************************************************************************)
ShowError(message) ==
    /\ errorMessage' = message
    /\ errorShown' = TRUE
    /\ hideTimers < MaxHideTimers
    /\ hideTimers' = hideTimers + 1

HideErrorTimer ==
    /\ hideTimers > 0
    /\ hideTimers' = hideTimers - 1
    /\ errorShown' = FALSE
    /\ UNCHANGED <<errorMessage, moduleVars, startupVars, analyzeBtnVars,
                   logBtnVars, response, displayVars, asyncVars, now, historyVars,
                   fnVars,
                   serverVars>>

(***************************************************************************)
(* Startup: loadReviews and loadModel run concurrently, the                *)
(* DOMContentLoaded handler continues when Promise.all settles.            *)
(***************************************************************************)
\* line 70: the filter on the text column
ValidText(text) == text # <<>> /\ Len(Trim(text)) > 0

\* lines 68-70
ExtractReviews(rows) == SelectSeq(rows, ValidText)

\* lines 49-74: what loadReviews computes from the outcome of the fetch
LoadReviewsResult(outcome) ==
    IF outcome.kind = "network" THEN Err("Failed to fetch")
    ELSE IF outcome.kind = "status"
         THEN Err("Failed to load TSV file: 404 Not Found")
    ELSE IF Len(ExtractReviews(outcome.rows)) = 0
         THEN Err("No valid reviews found in TSV file")
    ELSE Ok(ExtractReviews(outcome.rows))

\* Promise.any in place of Promise.all
PromiseAll_any(rp, mp) ==
    IF rp = "rejected" /\ mp = "rejected" THEN "rejected"
    ELSE IF rp = "fulfilled" \/ mp = "fulfilled" THEN "fulfilled"
    ELSE "pending"

\* Promise.allSettled in place of Promise.all
PromiseAll_settled(rp, mp) ==
    IF rp # "pending" /\ mp # "pending" THEN "fulfilled" ELSE "pending"

\* Promise.all of the two load promises, line 30
PromiseAll(rp, mp) ==
    IF rp = "rejected" \/ mp = "rejected" THEN "rejected"
    ELSE IF rp = "fulfilled" /\ mp = "fulfilled" THEN "fulfilled"
    ELSE "pending"

\* lines 35-41: the continuation of the DOMContentLoaded handler, run in
\* the same turn as the load that settles Promise.all
InitContinue(rp, mp, message) ==
    IF initPc = "awaiting" /\ PromiseAll(rp, mp) = "fulfilled"
    THEN /\ initPc' = "ready"
         /\ analyzeBtnDisabled' = FALSE
         /\ analyzeListener' = TRUE
         /\ logListener' = TRUE
         /\ UNCHANGED errorVars
    ELSE IF initPc = "awaiting" /\ PromiseAll(rp, mp) = "rejected"
    THEN /\ initPc' = "failed"
         /\ ShowError("Failed to initialize application: " \o message)
         /\ UNCHANGED <<analyzeBtnDisabled, analyzeListener, logListener>>
    ELSE UNCHANGED <<initPc, analyzeBtnDisabled, analyzeListener,
                     logListener, errorVars>>

LoadReviewsOk ==
    /\ reviewsPromise = "pending"
    /\ \E outcome \in FetchOutcomes :
          /\ LoadReviewsResult(outcome).kind = "ok"
          /\ reviews' = LoadReviewsResult(outcome).value
    /\ reviewsStatus' = "success"
    /\ reviewsLoaded' = TRUE
    /\ reviewsPromise' = "fulfilled"
    /\ InitContinue("fulfilled", modelPromise, "")
    /\ UNCHANGED <<sentimentPipeline, currentAnalysis, modelLoaded,
                   urlConfigured, modelPromise, modelStatus, analyzeBtnText,
                   logBtnDisabled, logBtnText, logBtnStyle, response, displayVars, asyncVars, now,
                   historyVars, fnVars,
                   serverVars>>

LoadReviewsFail ==
    /\ reviewsPromise = "pending"
    /\ \E outcome \in FetchOutcomes :
          /\ LoadReviewsResult(outcome).kind = "error"
          /\ reviews' = IF outcome.kind = "rows"
                        THEN ExtractReviews(outcome.rows) ELSE reviews
          /\ InitContinue("rejected", modelPromise,
                          LoadReviewsResult(outcome).message)
    /\ reviewsStatus' = "error"
    /\ reviewsPromise' = "rejected"
    /\ UNCHANGED <<sentimentPipeline, currentAnalysis, modelLoaded,
                   reviewsLoaded, urlConfigured, modelPromise, modelStatus,
                   analyzeBtnText, logBtnDisabled, logBtnText, logBtnStyle, response, displayVars,
                   asyncVars, now, historyVars, fnVars,
                   serverVars>>

LoadModelOk ==
    /\ modelPromise = "pending"
    /\ sentimentPipeline' = TRUE
    /\ modelStatus' = "success"
    /\ modelLoaded' = TRUE
    /\ modelPromise' = "fulfilled"
    /\ InitContinue(reviewsPromise, "fulfilled", "")
    /\ UNCHANGED <<reviews, currentAnalysis, reviewsLoaded, urlConfigured,
                   reviewsPromise, reviewsStatus, analyzeBtnText,
                   logBtnDisabled, logBtnText, logBtnStyle, response, displayVars, asyncVars, now,
                   historyVars, fnVars,
                   serverVars>>

LoadModelFail ==
    /\ modelPromise = "pending"
    /\ modelStatus' = "error"
    /\ modelPromise' = "rejected"
    /\ InitContinue(reviewsPromise, "rejected",
                    "Model loading failed: " \o "network error")
    /\ UNCHANGED <<reviews, sentimentPipeline, currentAnalysis, modelLoaded,
                   reviewsLoaded, urlConfigured, reviewsPromise,
                   reviewsStatus, analyzeBtnText, logBtnDisabled, logBtnText,
                   logBtnStyle, response, displayVars, asyncVars, now, historyVars, fnVars,
                   serverVars>>

Tick ==
    /\ now < MaxTime
    /\ now' = now + 1
    /\ UNCHANGED <<moduleVars, startupVars, analyzeBtnVars, logBtnVars, response,
                   errorVars, displayVars, asyncVars, historyVars, fnVars,
                   serverVars>>

(***************************************************************************)
(* The analyze action, lines 131-138 and 186-263.                          *)
(***************************************************************************)
\* Math.random() gives rnd / RandomDen, with rnd in 0..RandomDen - 1
RandomDen == 4

\* what reading an array outside its indices gives
Undefined == <<"undefined">>

\* arr[i] of the code, indices from 0
ArrayAt(arr, i) == IF i + 1 \in 1..Len(arr) THEN arr[i + 1] ELSE Undefined

\* an index rounded to the nearest integer
RandomIndex_round(len, rnd) == (2 * rnd * len + RandomDen) \div (2 * RandomDen)

\* line 135: Math.floor(Math.random() * reviews.length)
RandomIndex(len, rnd) == (rnd * len) \div RandomDen

\* lines 131-138 for one value of Math.random()
GetRandomReviewAt(revs, rnd) ==
    IF Len(revs) = 0 THEN Err("No reviews available")
    ELSE Ok(ArrayAt(revs, RandomIndex(Len(revs), rnd)))

\* getRandomReview: the values it can return or the error it throws
GetRandomReview(revs) ==
    {GetRandomReviewAt(revs, rnd) : rnd \in 0..(RandomDen - 1)}

\* line 257
AnalyzeCatch(message) == ShowError("Analysis failed: " \o message)

\* a finally block that restores the caption only
AnalyzeFinally_captionOnly ==
    /\ analyzeBtnText' = CaptionAnalyze
    /\ UNCHANGED analyzeBtnDisabled

\* lines 258-262
AnalyzeFinally ==
    /\ analyzeBtnDisabled' = FALSE
    /\ analyzeBtnText' = CaptionAnalyze

\* lines 244-248
NewAnalysis(review, analysis, time) ==
    [review |-> review,
     label |-> analysis.label,
     score |-> analysis.score,
     sentiment |-> analysis.sentiment,
     confidence |-> analysis.confidence,
     timestamp |-> time]

\* lines 186-211: what updateUI puts on the page
UpdateUI(review, analysis) ==
    [reviewBox |-> review,
     resultClass |-> analysis.sentiment,
     icon |-> CASE analysis.sentiment = "positive" -> "fa-thumbs-up"
                [] analysis.sentiment = "negative" -> "fa-thumbs-down"
                [] OTHER -> "fa-question-circle",
     sentimentLabel |-> analysis.label,
     confidence |-> analysis.confidence]

\* the click handler up to its first suspension (or to its end when it
\* fails before the engine is invoked)
AnalyzeClick ==
    /\ analyzeListener
    /\ ~analyzeBtnDisabled
    /\ IF ~modelLoaded \/ ~reviewsLoaded
       THEN /\ ShowError("Model or reviews not loaded yet")
            /\ UNCHANGED <<analyzeBtnDisabled, analyzeBtnText,
                           logBtnDisabled, analyzing>>
       ELSE \E picked \in GetRandomReview(reviews) :
              LET guard == IF picked.kind = "error" THEN picked
                           ELSE AnalyzeSentimentGuard(sentimentPipeline,
                                                      picked.value)
              IN  IF guard # Null
                  THEN /\ AnalyzeCatch(guard.message)
                       /\ AnalyzeFinally
                       /\ logBtnDisabled' = TRUE
                       /\ UNCHANGED analyzing
                  ELSE /\ errorShown' = FALSE
                       /\ UNCHANGED <<errorMessage, hideTimers>>
                       /\ analyzeBtnDisabled' = TRUE
                       /\ analyzeBtnText' = CaptionAnalyzing
                       /\ logBtnDisabled' = TRUE
                       /\ analyzing' = [review |-> picked.value,
                                        engineCalls |-> 1]
    /\ UNCHANGED <<moduleVars, startupVars, analyzeListener, logBtnText,
                   logBtnStyle, response, logListener, displayVars, logsInFlight,
                   resetTimers, now, historyVars, fnVars,
                   serverVars>>

\* line 160 for the history: the first entry of the answer, if it has one
Primary(results) ==
    IF results.kind = "array" /\ Len(results.items) > 0
    THEN results.items[1]
    ELSE Raw(<<>>, 0)

\* a catch block that also forgets the stored analysis
AnalyzeSettle_clearsSession(results) ==
    /\ analyzing # Null
    /\ results \in EngineOutputs(analyzing.review)
    /\ LET r == AnalyzeSentimentResult(results) IN
          IF r.kind = "ok"
          THEN /\ currentAnalysis' =
                     NewAnalysis(analyzing.review, r.value, now)
               /\ display' = UpdateUI(analyzing.review, r.value)
               /\ lastRaw' = [review |-> analyzing.review,
                              label |-> Primary(results).label,
                              score |-> Primary(results).score,
                              time |-> now]
               /\ logBtnDisabled' = FALSE
               /\ UNCHANGED errorVars
          ELSE /\ AnalyzeCatch(r.message)
               /\ currentAnalysis' = Null
               /\ UNCHANGED <<display, lastRaw, logBtnDisabled>>
    /\ AnalyzeFinally
    /\ analyzing' = Null
    /\ UNCHANGED <<reviews, sentimentPipeline, modelLoaded, reviewsLoaded,
                   urlConfigured, startupVars, analyzeListener, logBtnText,
                   logBtnStyle, response, logListener, logsInFlight, resetTimers, now,
                   logBtnStartsDisabled, fnVars,
                   serverVars>>

\* lines 241-262 for one answer of the engine: the handler resumes, stores
\* and shows the result or reports the failure, and ends
AnalyzeSettle(results) ==
    /\ analyzing # Null
    /\ results \in EngineOutputs(analyzing.review)
    /\ LET r == AnalyzeSentimentResult(results) IN
          IF r.kind = "ok"
          THEN /\ currentAnalysis' =
                     NewAnalysis(analyzing.review, r.value, now)
               /\ display' = UpdateUI(analyzing.review, r.value)
               /\ lastRaw' = [review |-> analyzing.review,
                              label |-> Primary(results).label,
                              score |-> Primary(results).score,
                              time |-> now]
               /\ logBtnDisabled' = FALSE
               /\ UNCHANGED errorVars
          ELSE /\ AnalyzeCatch(r.message)
               /\ UNCHANGED <<currentAnalysis, display, lastRaw,
                              logBtnDisabled>>
    /\ AnalyzeFinally
    /\ analyzing' = Null
    /\ UNCHANGED <<reviews, sentimentPipeline, modelLoaded, reviewsLoaded,
                   urlConfigured, startupVars, analyzeListener, logBtnText,
                   logBtnStyle, response, logListener, logsInFlight, resetTimers, now,
                   logBtnStartsDisabled, fnVars,
                   serverVars>>

\* the engine answers and analyzeSentiment returns a result
AnalyzeSucceed ==
    /\ analyzing # Null
    /\ \E results \in EngineOutputs(analyzing.review) :
          /\ AnalyzeSentimentResult(results).kind = "ok"
          /\ AnalyzeSettle(results)

\* a failure path that enables the log button as the success path does
AnalyzeFail_enablesLog ==
    /\ analyzing # Null
    /\ \E results \in EngineOutputs(analyzing.review) :
          LET r == AnalyzeSentimentResult(results) IN
          /\ r.kind = "error"
          /\ AnalyzeCatch(r.message)
    /\ AnalyzeFinally
    /\ logBtnDisabled' = FALSE
    /\ analyzing' = Null
    /\ UNCHANGED <<moduleVars, startupVars, analyzeListener, logBtnText,
                   logBtnStyle, response, logListener, displayVars, logsInFlight,
                   resetTimers, now, historyVars, fnVars,
                   serverVars>>

\* the engine call rejects or its answer is refused
AnalyzeFail ==
    /\ analyzing # Null
    /\ \E results \in EngineOutputs(analyzing.review) :
          /\ AnalyzeSentimentResult(results).kind = "error"
          /\ AnalyzeSettle(results)

(***************************************************************************)
(* The log action, lines 268-349.                                          *)
(***************************************************************************)
\* the two early returns in the other order
LogPrecheck_urlFirst(analysis, configured) ==
    IF ~configured
    THEN Err("Google Sheets integration not configured. "
             \o "Please set your Google Script URL.")
    ELSE IF analysis = Null THEN Err("No analysis to log")
    ELSE Null

\* lines 285-293: the two early returns; Null when the handler goes on
LogPrecheck(analysis, configured) ==
    IF analysis = Null THEN Err("No analysis to log")
    ELSE IF ~configured
         THEN Err("Google Sheets integration not configured. "
                  \o "Please set your Google Script URL.")
    ELSE Null

\* lines 268-279; the navigator and screen values are fixed for a session.
\* The clock is read twice, at line 275 (time) and at line 277 (later).
CollectMetadata(revs, time, later) ==
    [userAgent |-> "navigator.userAgent",
     language |-> "navigator.language",
     platform |-> "navigator.platform",
     screenResolution |-> "WxH",
     model |-> MODEL_NAME,
     timestamp |-> time,
     reviewCount |-> Len(revs),
     analysisTime |-> later]

\* line 300
SentimentField(analysis) ==
    analysis.label \o <<" ", "(">> \o analysis.confidence \o <<"%", ")">>

\* ts_iso taken from the clock at the time of logging
BuildPayload_now(analysis, revs, time, later) ==
    [ts_iso |-> time,
     review |-> analysis.review,
     sentiment |-> SentimentField(analysis),
     meta |-> [env |-> CollectMetadata(revs, time, later),
               analysis |-> [label |-> analysis.label,
                             score |-> analysis.score,
                             sentiment |-> analysis.sentiment,
                             confidence |-> analysis.confidence]]]

\* lines 297-310; meta is the object that JSON.stringify serialises
BuildPayload(analysis, revs, time, later) ==
    [ts_iso |-> analysis.timestamp,
     review |-> analysis.review,
     sentiment |-> SentimentField(analysis),
     meta |-> [env |-> CollectMetadata(revs, time, later),
               analysis |-> [label |-> analysis.label,
                             score |-> analysis.score,
                             sentiment |-> analysis.sentiment,
                             confidence |-> analysis.confidence]]]

\* a click that ends at one of the early returns
LogReject ==
    /\ logListener
    /\ ~logBtnDisabled
    /\ LogPrecheck(currentAnalysis, urlConfigured) # Null
    /\ ShowError(LogPrecheck(currentAnalysis, urlConfigured).message)
    /\ UNCHANGED <<moduleVars, startupVars, analyzeBtnVars, logBtnVars, response,
                   displayVars, asyncVars, now, historyVars, fnVars,
                   serverVars>>

\* a click that builds the record and hands it to fetch; the clock may
\* have advanced between the two readings of collectMetadata
LogSend ==
    /\ logListener
    /\ ~logBtnDisabled
    /\ LogPrecheck(currentAnalysis, urlConfigured) = Null
    /\ Len(logsInFlight) < MaxInFlight
    /\ \E later \in now..MaxTime :
          /\ logsInFlight' =
                Append(logsInFlight,
                       [payload |-> BuildPayload(currentAnalysis, reviews,
                                                 now, later),
                        analysed |-> lastRaw,
                        fetches |-> 1])
          /\ now' = later
    /\ logBtnDisabled' = TRUE
    /\ logBtnText' = CaptionLogging
    /\ UNCHANGED <<moduleVars, startupVars, analyzeBtnVars, logBtnStyle, response,
                   logListener, errorVars, displayVars, analyzing,
                   resetTimers, historyVars, fnVars,
                   serverVars>>

RemoveAt(seq, i) == SubSeq(seq, 1, i - 1) \o SubSeq(seq, i + 1, Len(seq))

(***************************************************************************)
(* The endpoint: doPost of the Apps Script file.  The spreadsheet is       *)
(* [opens, exists, id, logs]: opens says whether openById finds the        *)
(* document of line 10, exists whether the document has a sheet 'Logs', id *)
(* tells the sheets that have borne this name apart (a handle on a deleted *)
(* sheet does not reach the sheet that replaced it), logs is the content   *)
(* of the sheet as the sequence of its rows (every row has content, so     *)
(* getLastRow is the length).  An execution is [pc, contents, data, sheet, *)
(* lastRow, ack]; it goes from one Spreadsheet service call to the         *)
(* next; the script takes no lock, so executions of different requests     *)
(* interleave between these calls.                                         *)
(***************************************************************************)
\* line 19
Header == <<"Timestamp (ts_iso)", "Review", "Sentiment (with confidence)",
            "Meta">>

BlankRow == <<"", "", "", "">>

RecordA == [ts_iso |-> "2026-02-06T10:00:00.000Z", review |-> "Great",
            sentiment |-> "POSITIVE (95.2%)", meta |-> "{\"a\":1}"]
RecordB == [ts_iso |-> "2026-02-06T10:00:01.000Z", review |-> "Bad",
            sentiment |-> "NEGATIVE (98.0%)", meta |-> "{\"a\":2}"]

\* e.postData.contents: text that is not JSON, the JSON text null, or the
\* JSON text of an object
BodyInvalid == [json |-> "invalid"]
BodyNull == [json |-> "null"]
BodyObject(data) == [json |-> "object", data |-> data]
Bodies == {BodyInvalid, BodyNull, BodyObject(RecordA), BodyObject(RecordB)}

\* line 7
JsonParse(contents) ==
    CASE contents.json = "invalid" -> Err("Unexpected token")
      [] contents.json = "null" -> Ok(Null)
      [] OTHER -> Ok(contents.data)

\* lines 24-29
RowData(data) == <<data.ts_iso, data.review, data.sentiment, data.meta>>

\* lines 39-45
AckSuccess(row) ==
    [success |-> TRUE, message |-> "Data logged successfully", row |-> row]

\* lines 47-55
AckFailure(message) == [success |-> FALSE, error |-> message]

Waiting ==
    [pc |-> "waiting", contents |-> Null, data |-> Null, sheet |-> 0,
     lastRow |-> 0, ack |-> Null]

\* a catch block that returns nothing
Caught_noAck(ss, ex, message) ==
    [ss |-> ss, ex |-> [ex EXCEPT !.pc = "done"]]

\* the catch block: the execution ends with the failure acknowledgment
Caught(ss, ex, message) ==
    [ss |-> ss, ex |-> [ex EXCEPT !.pc = "done", !.ack = AckFailure(message)]]

\* getRange(n, 1, 1, 4).setValues([row]) on the rows of a sheet
SetRow(rows, n, row) ==
    IF n < 1 THEN rows
    ELSE IF n <= Len(rows) THEN [rows EXCEPT ![n] = row]
    ELSE rows \o [k \in 1..(n - 1 - Len(rows)) |-> BlankRow] \o <<row>>

\* sheet.getLastRow()
GetLastRow(rows) == Len(rows)

\* lines 7-16: parse the body, open the document, look for the sheet
Begin(ss, contents) ==
    LET parsed == JsonParse(contents)
        ex == [Waiting EXCEPT !.contents = contents]
    IN  IF parsed.kind = "error" THEN Caught(ss, ex, parsed.message)
        ELSE IF ~ss.opens THEN Caught(ss, ex, "Unexpected error while getting the method or property openById on object SpreadsheetApp.")
        ELSE [ss |-> ss,
              ex |-> [ex EXCEPT !.data = parsed.value,
                                !.sheet = ss.id,
                                !.pc = IF ~ss.exists THEN "insertSheet"
                                       ELSE "getLastRow"]]

\* line 17
InsertSheet(ss, ex) ==
    IF ss.exists
    THEN Caught(ss, ex, "A sheet with the name \"Logs\" already exists. Please enter another name.")
    ELSE [ss |-> [ss EXCEPT !.exists = TRUE, !.id = @ + 1, !.logs = <<>>],
          ex |-> [ex EXCEPT !.sheet = ss.id + 1, !.pc = "header"]]

\* the sheet that the handle was taken on has been deleted since
Deleted(ss, handle) == ~ss.exists \/ ss.id # handle

SheetNotFound == "Sheet not found"

\* line 19
WriteHeader(ss, ex) ==
    IF Deleted(ss, ex.sheet) THEN Caught(ss, ex, SheetNotFound)
    ELSE [ss |-> [ss EXCEPT !.logs = SetRow(@, 1, Header)],
          ex |-> [ex EXCEPT !.pc = "setFontWeight"]]

\* line 20: the format of the header changes no content
SetFontWeight(ss, ex) ==
    IF Deleted(ss, ex.sheet) THEN Caught(ss, ex, SheetNotFound)
    ELSE [ss |-> ss, ex |-> [ex EXCEPT !.pc = "getLastRow"]]

\* lines 24-32: reading a field of null throws
ReadLastRow(ss, ex) ==
    IF ex.data = Null
    THEN Caught(ss, ex, "Cannot read properties of null (reading 'ts_iso')")
    ELSE IF Deleted(ss, ex.sheet) THEN Caught(ss, ex, SheetNotFound)
    ELSE [ss |-> ss,
          ex |-> [ex EXCEPT !.lastRow = GetLastRow(ss.logs),
                            !.pc = "setValues"]]

\* a write on the last used row
SetValues_onLastRow(ss, ex) ==
    IF Deleted(ss, ex.sheet) THEN Caught(ss, ex, SheetNotFound)
    ELSE [ss |-> [ss EXCEPT !.logs = SetRow(@, ex.lastRow, RowData(ex.data))],
          ex |-> [ex EXCEPT !.pc = "autoResizeColumns"]]

\* line 33
SetValues(ss, ex) ==
    IF Deleted(ss, ex.sheet) THEN Caught(ss, ex, SheetNotFound)
    ELSE [ss |-> [ss EXCEPT !.logs =
                               SetRow(@, ex.lastRow + 1, RowData(ex.data))],
          ex |-> [ex EXCEPT !.pc = "autoResizeColumns"]]

\* lines 36-45: the widths change no content; then the execution returns
AutoResizeColumns(ss, ex) ==
    IF Deleted(ss, ex.sheet) THEN Caught(ss, ex, SheetNotFound)
    ELSE [ss |-> ss,
          ex |-> [ex EXCEPT !.pc = "done",
                            !.ack = AckSuccess(ex.lastRow + 1)]]

\* the call of the execution's position
Step(ss, ex) ==
    CASE ex.pc = "insertSheet" -> InsertSheet(ss, ex)
      [] ex.pc = "header" -> WriteHeader(ss, ex)
      [] ex.pc = "setFontWeight" -> SetFontWeight(ss, ex)
      [] ex.pc = "getLastRow" -> ReadLastRow(ss, ex)
      [] ex.pc = "setValues" -> SetValues(ss, ex)
      [] ex.pc = "autoResizeColumns" -> AutoResizeColumns(ss, ex)
      [] OTHER -> [ss |-> ss, ex |-> ex]

RECURSIVE RunToEnd(_)
RunToEnd(run) ==
    IF run.ex.pc = "done" THEN run ELSE RunToEnd(Step(run.ss, run.ex))

\* lines 4-56, with no other execution in between
DoPost(ss, contents) == RunToEnd(Begin(ss, contents))

\* setupSheet has no try: an exception ends the execution where it is
SetupEnds(ss, su) == [ss |-> ss, su |-> [su EXCEPT !.pc = "idle"]]

\* lines 82-88: open the document, look for the sheet
SetupBegin(ss, su) ==
    IF ~ss.opens THEN SetupEnds(ss, su)
    ELSE [ss |-> ss,
          su |-> [su EXCEPT !.pc = IF ss.exists THEN "deleteSheet"
                                   ELSE "insertSheet"]]

\* line 89: the sheet goes with every row logged in it
SetupDelete(ss, su) ==
    IF ~ss.exists THEN SetupEnds(ss, su)
    ELSE [ss |-> [ss EXCEPT !.exists = FALSE, !.logs = <<>>],
          su |-> [su EXCEPT !.pc = "insertSheet"]]

\* line 93
SetupInsert(ss, su) ==
    IF ss.exists THEN SetupEnds(ss, su)
    ELSE [ss |-> [ss EXCEPT !.exists = TRUE, !.id = @ + 1, !.logs = <<>>],
          su |-> [su EXCEPT !.pc = "header"]]

\* lines 96-110: the header and its formats
SetupHeader(ss, su) ==
    IF ~ss.exists THEN SetupEnds(ss, su)
    ELSE SetupEnds([ss EXCEPT !.logs = SetRow(@, 1, Header)], su)

SetupStep(ss, su) ==
    CASE su.pc = "deleteSheet" -> SetupDelete(ss, su)
      [] su.pc = "insertSheet" -> SetupInsert(ss, su)
      [] su.pc = "header" -> SetupHeader(ss, su)
      [] OTHER -> [ss |-> ss, su |-> su]

RECURSIVE SetupToEnd(_)
SetupToEnd(run) ==
    IF run.su.pc = "idle" THEN run ELSE SetupToEnd(SetupStep(run.ss, run.su))

\* lines 82-111, with no other execution in between
SetupSheet(ss, su) == SetupToEnd(SetupBegin(ss, su))

\* the documents the deployed endpoint may be writing to
EndpointDocuments ==
    { [opens |-> FALSE, exists |-> FALSE, id |-> 0, logs |-> <<>>],
      [opens |-> TRUE, exists |-> TRUE, id |-> 0, logs |-> <<Header>>] }

\* what the endpoint does with the body JSON.stringify(payload), line 323
EndpointAnswer(ss, payload) ==
    LET run == DoPost(ss, BodyObject(payload))
    IN  [ack |-> run.ex.ack, appended |-> run.ss.logs # ss.logs]

\* a handler that reads the acknowledgment and reports a failure
LogFetchResolve_readsAck ==
    /\ resetTimers < MaxResetTimers
    /\ \E i \in 1..Len(logsInFlight), ss \in EndpointDocuments :
          /\ logsInFlight' = RemoveAt(logsInFlight, i)
          /\ response' = EndpointAnswer(ss, logsInFlight[i].payload)
    /\ IF response'.ack.success
       THEN /\ logBtnText' = CaptionLogged
            /\ logBtnStyle' = "positive"
            /\ UNCHANGED errorVars
       ELSE /\ ShowError("Failed to log to Google Sheets: " \o "Failed to fetch")
            /\ logBtnText' = CaptionLogged
            /\ logBtnStyle' = ""
    /\ resetTimers' = resetTimers + 1
    /\ UNCHANGED <<moduleVars, startupVars, analyzeBtnVars, logBtnDisabled,
                   logListener, displayVars, analyzing, now,
                   historyVars, fnVars, serverVars>>

\* lines 317-340: fetch resolves (with mode no-cors, whatever the endpoint
\* answered)
LogFetchResolve ==
    /\ resetTimers < MaxResetTimers
    /\ \E i \in 1..Len(logsInFlight), ss \in EndpointDocuments :
          /\ logsInFlight' = RemoveAt(logsInFlight, i)
          /\ response' = EndpointAnswer(ss, logsInFlight[i].payload)
    /\ logBtnText' = CaptionLogged
    /\ logBtnStyle' = "positive"
    /\ resetTimers' = resetTimers + 1
    /\ UNCHANGED <<moduleVars, startupVars, analyzeBtnVars, logBtnDisabled,
                   logListener, errorVars, displayVars, analyzing, now,
                   historyVars, fnVars,
                   serverVars>>

\* a catch block that sends the request again after a failure
LogFetchReject_retry ==
    /\ \E i \in 1..Len(logsInFlight) :
          logsInFlight' =
             IF logsInFlight[i].fetches < 2
             THEN [logsInFlight EXCEPT ![i].fetches = @ + 1]
             ELSE RemoveAt(logsInFlight, i)
    /\ ShowError("Failed to log to Google Sheets: " \o "Failed to fetch")
    /\ logBtnDisabled' = FALSE
    /\ logBtnText' = CaptionLog
    /\ UNCHANGED <<moduleVars, startupVars, analyzeBtnVars, logBtnStyle, response,
                   logListener, displayVars, analyzing, resetTimers, now,
                   historyVars, fnVars,
                   serverVars>>

\* fetch rejects: the network-level failure
LogFetchReject ==
    /\ \E i \in 1..Len(logsInFlight) :
          logsInFlight' = RemoveAt(logsInFlight, i)
    /\ ShowError("Failed to log to Google Sheets: " \o "Failed to fetch")
    /\ logBtnDisabled' = FALSE
    /\ logBtnText' = CaptionLog
    /\ UNCHANGED <<moduleVars, startupVars, analyzeBtnVars, logBtnStyle, response,
                   logListener, displayVars, analyzing, resetTimers, now,
                   historyVars, fnVars,
                   serverVars>>

\* lines 335-340: the timer set by a resolved log
ResetTimer ==
    /\ resetTimers > 0
    /\ resetTimers' = resetTimers - 1
    /\ logBtnText' = CaptionLog
    /\ logBtnStyle' = ""
    /\ response' = Null
    /\ logBtnDisabled' = FALSE
    /\ UNCHANGED <<moduleVars, startupVars, analyzeBtnVars, logListener,
                   errorVars, displayVars, analyzing, logsInFlight, now,
                   historyVars, fnVars,
                   serverVars>>

Next ==
    \/ LoadReviewsOk
    \/ LoadReviewsFail
    \/ LoadModelOk
    \/ LoadModelFail
    \/ AnalyzeClick
    \/ AnalyzeSucceed
    \/ AnalyzeFail
    \/ LogReject
    \/ LogSend
    \/ LogFetchResolve
    \/ LogFetchReject
    \/ ResetTimer
    \/ HideErrorTimer
    \/ Tick

Spec == Init /\ [][Next]_vars

(***************************************************************************)
(* analyzeSentiment called directly (it is exported for tests), over the   *)
(* engine states, texts and engine answers below.                          *)
(***************************************************************************)
FnLabels == { POSITIVE, NEGATIVE, LabelLowerPositive, LabelMixedNegative,
              LabelStars, LabelBoth, POSITIVE \o <<"/">> \o LabelMixedNegative,
              <<"L","A","B","E","L","_","1">>, <<>>,
              LabelDotless, LabelLongS, LabelSharp, LabelAccent }

FnTexts == { TextGood, TextBad, TextBlank, TextEmpty }

FnScores ==
    { k * Thousandth : k \in 0..(ScoreOne \div Thousandth) }
        \cup { j * ThirtySecond : j \in 0..(ScoreOne \div ThirtySecond) }

FnResults ==
    { EngineThrows, EngineOther, EngineArray(<<>>) }
        \cup { EngineArray(<<Raw(l, s)>>) : l \in FnLabels, s \in FnScores }

InitFn ==
    /\ InitPage
    /\ urlConfigured = FALSE
    /\ logBtnStartsDisabled = TRUE
    /\ fnIn \in [pipeline : BOOLEAN, text : FnTexts, results : FnResults]
    /\ fnOut = Null
    /\ NoRequests

FnCall ==
    /\ fnOut = Null
    /\ fnOut' = AnalyzeSentiment(fnIn.pipeline, fnIn.text, fnIn.results)
    /\ UNCHANGED <<fnIn, pageVars, serverVars>>

NextFn == FnCall

SpecFn == InitFn /\ [][NextFn]_vars

(***************************************************************************)
(* The page run with an engine that gives the same answer, fnIn.results,   *)
(* to every call: loading, analyses and logs of their results.             *)
(***************************************************************************)
EngineLabels == { LabelLowerPositive, LabelDotless, LabelSharp }

EngineResults ==
    { EngineThrows, EngineOther, EngineArray(<<>>) }
        \cup { EngineArray(<<Raw(l, s)>>) : l \in EngineLabels, s \in FnScores }

InitEngine ==
    /\ InitPage
    /\ urlConfigured = TRUE
    /\ logBtnStartsDisabled = TRUE
    /\ fnIn \in [results : EngineResults]
    /\ fnOut = Null
    /\ NoRequests

NextEngine ==
    \/ LoadReviewsOk
    \/ LoadModelOk
    \/ AnalyzeClick
    \/ AnalyzeSucceed
    \/ AnalyzeFail
    \/ LogSend

SpecEngine == InitEngine /\ [][NextEngine]_vars

(***************************************************************************)
(* getRandomReview called directly, over the datasets the page can hold    *)
(* (loadReviews keeps the texts that are not blank) and the values of      *)
(* Math.random().                                                          *)
(***************************************************************************)
MaxReviews == 3

PickDatasets ==
    UNION { [1..n -> {TextGood, TextBad}] : n \in 0..MaxReviews }

InitPick ==
    /\ reviews \in PickDatasets
    /\ InitPageState
    /\ urlConfigured = FALSE
    /\ logBtnStartsDisabled = TRUE
    /\ fnIn \in [rnd : 0..(RandomDen - 1)]
    /\ fnOut = Null
    /\ NoRequests

GetRandomReviewCall ==
    /\ fnOut = Null
    /\ fnOut' = GetRandomReviewAt(reviews, fnIn.rnd)
    /\ UNCHANGED <<fnIn, pageVars, serverVars>>

NextPick == GetRandomReviewCall

SpecPick == InitPick /\ [][NextPick]_vars

(***************************************************************************)
(* Executions of doPost, overlapping or one after another.                 *)
(***************************************************************************)
MaxRequests == 2
MaxSetups == 1

\* the documents a deployment starts from: no sheet 'Logs', a blank one, one
\* with the header, one with a logged row

InitialSheets ==
    { [exists |-> FALSE, logs |-> <<>>],
      [exists |-> TRUE, logs |-> <<>>],
      [exists |-> TRUE, logs |-> <<Header>>],
      [exists |-> TRUE, logs |-> <<Header, RowData(RecordB)>>] }

InitServer ==
    /\ InitPage
    /\ urlConfigured = TRUE
    /\ logBtnStartsDisabled = TRUE
    /\ fnIn = Null
    /\ fnOut = Null
    /\ \E opens \in BOOLEAN, sheet \in InitialSheets :
          spreadsheet = [opens |-> opens, exists |-> sheet.exists,
                         id |-> 0, logs |-> sheet.logs]
    /\ req = [r \in 1..MaxRequests |-> Waiting]
    /\ setup = [pc |-> "idle", runs |-> 0, after |-> 0]

Started(r) == req[r].pc # "waiting"
Done(r) == req[r].pc = "done"

\* the effect of one call of execution r
Advance(r, run) ==
    /\ spreadsheet' = run.ss
    /\ req' = [req EXCEPT ![r] = run.ex]
    /\ UNCHANGED <<setup, pageVars, fnVars>>

\* requests are numbered in the order of their arrival
DoPostBegin(r) ==
    /\ ~Started(r)
    /\ IF r = 1 THEN TRUE ELSE Started(r - 1)
    /\ \E contents \in Bodies : Advance(r, Begin(spreadsheet, contents))

DoPostInsertSheet(r) ==
    /\ req[r].pc = "insertSheet"
    /\ Advance(r, InsertSheet(spreadsheet, req[r]))

DoPostHeader(r) ==
    /\ req[r].pc = "header"
    /\ Advance(r, WriteHeader(spreadsheet, req[r]))

DoPostSetFontWeight(r) ==
    /\ req[r].pc = "setFontWeight"
    /\ Advance(r, SetFontWeight(spreadsheet, req[r]))

DoPostGetLastRow(r) ==
    /\ req[r].pc = "getLastRow"
    /\ Advance(r, ReadLastRow(spreadsheet, req[r]))

DoPostSetValues(r) ==
    /\ req[r].pc = "setValues"
    /\ Advance(r, SetValues(spreadsheet, req[r]))

DoPostAutoResizeColumns(r) ==
    /\ req[r].pc = "autoResizeColumns"
    /\ Advance(r, AutoResizeColumns(spreadsheet, req[r]))

\* the number of requests that have arrived
Arrived == Cardinality({r \in 1..MaxRequests : Started(r)})

\* the effect of one call of setupSheet
AdvanceSetup(run) ==
    /\ spreadsheet' = run.ss
    /\ setup' = run.su
    /\ UNCHANGED <<req, pageVars, fnVars>>

\* someone runs setupSheet
SetupSheetBegin ==
    /\ setup.pc = "idle"
    /\ setup.runs < MaxSetups
    /\ AdvanceSetup(SetupBegin(spreadsheet, [setup EXCEPT !.runs = @ + 1]))

SetupSheetDelete ==
    /\ setup.pc = "deleteSheet"
    /\ AdvanceSetup(SetupDelete(spreadsheet, setup))

SetupSheetInsert ==
    /\ setup.pc = "insertSheet"
    /\ AdvanceSetup(SetupInsert(spreadsheet, setup))

SetupSheetHeader ==
    /\ setup.pc = "header"
    /\ AdvanceSetup(SetupHeader(spreadsheet, setup))

NextServer ==
    \/ \E r \in 1..MaxRequests : DoPostBegin(r)
    \/ \E r \in 1..MaxRequests : DoPostInsertSheet(r)
    \/ \E r \in 1..MaxRequests : DoPostHeader(r)
    \/ \E r \in 1..MaxRequests : DoPostSetFontWeight(r)
    \/ \E r \in 1..MaxRequests : DoPostGetLastRow(r)
    \/ \E r \in 1..MaxRequests : DoPostSetValues(r)
    \/ \E r \in 1..MaxRequests : DoPostAutoResizeColumns(r)
    \/ SetupSheetBegin
    \/ SetupSheetDelete
    \/ SetupSheetInsert
    \/ SetupSheetHeader

SpecServer == InitServer /\ [][NextServer]_vars

\* one request after another: an execution starts when the one before it
\* has returned, and runs to its end
DoPostCall(r) ==
    /\ ~Started(r)
    /\ IF r = 1 THEN TRUE ELSE Done(r - 1)
    /\ \E contents \in Bodies : Advance(r, DoPost(spreadsheet, contents))

\* setupSheet run between two requests; after records how many requests
\* had been served by then
SetupSheetCall ==
    /\ setup.pc = "idle"
    /\ setup.runs < MaxSetups
    /\ \A r \in 1..MaxRequests : Started(r) => Done(r)
    /\ AdvanceSetup(SetupSheet(spreadsheet,
                               [setup EXCEPT !.runs = @ + 1,
                                             !.after = Arrived]))

NextSeq ==
    \/ \E r \in 1..MaxRequests : DoPostCall(r)
    \/ SetupSheetCall

SpecSeq == InitServer /\ [][NextSeq]_vars

(***************************************************************************)
(* Properties.                                                             *)
(***************************************************************************)
\* s contains word when the two are compared without regard to case, that
\* is, in their upper case forms
ContainsCI(s, word) == Includes(ToUpperCase(s), ToUpperCase(word))

IsBlank(text) == \A i \in 1..Len(text) : text[i] \in WhiteSpace

FnReturned == fnOut.kind = "ok"
FnLabel == fnIn.results.items[1].label
FnScore == fnIn.results.items[1].score

\* C1 as claimed: a result is positive iff the label contains "positive"
\* (any case) and the score exceeds 0.5, negative iff it contains "negative"
\* and the score exceeds 0.5, neutral in every other case.
C1_AsClaimed ==
    FnReturned =>
        /\ fnOut.value.sentiment = "positive"
              <=> (ContainsCI(FnLabel, POSITIVE) /\ FnScore > Half)
        /\ fnOut.value.sentiment = "negative"
              <=> (ContainsCI(FnLabel, NEGATIVE) /\ FnScore > Half)
        /\ fnOut.value.sentiment = "neutral"
              <=> ~(/\ FnScore > Half
                    /\ \/ ContainsCI(FnLabel, POSITIVE)
                       \/ ContainsCI(FnLabel, NEGATIVE))

\* C1 amended: positive iff the label in upper case contains "POSITIVE" and
\* the score exceeds 0.5; negative iff the label in upper case contains
\* "NEGATIVE" but not "POSITIVE" and the score exceeds 0.5; neutral in every
\* other case; the result is always exactly one of the three values.
C1_SentimentRule ==
    FnReturned =>
        /\ fnOut.value.sentiment \in {"positive", "negative", "neutral"}
        /\ fnOut.value.sentiment = "positive"
              <=> (ContainsCI(FnLabel, POSITIVE) /\ FnScore > Half)
        /\ fnOut.value.sentiment = "negative"
              <=> (/\ ContainsCI(FnLabel, NEGATIVE)
                   /\ ~ContainsCI(FnLabel, POSITIVE)
                   /\ FnScore > Half)
        /\ fnOut.value.sentiment = "neutral"
              <=> ~(/\ FnScore > Half
                    /\ \/ ContainsCI(FnLabel, POSITIVE)
                       \/ ContainsCI(FnLabel, NEGATIVE))

\* a label with both words and a score above 0.5 has been classified
C1_Witness ==
    /\ FnReturned
    /\ ContainsCI(FnLabel, POSITIVE)
    /\ ContainsCI(FnLabel, NEGATIVE)
    /\ FnLabel # ToUpperCase(FnLabel)
    /\ FnScore > Half
    /\ fnOut.value.sentiment = "positive"

AnalyzeAvailable == analyzeListener /\ ~analyzeBtnDisabled

\* C2: the analyze action is available (button enabled, click handler
\* attached) only when both the dataset load and the model load have
\* completed successfully.
C2_ReadinessGate ==
    AnalyzeAvailable =>
        /\ reviewsPromise = "fulfilled" /\ reviewsLoaded
        /\ modelPromise = "fulfilled" /\ modelLoaded
        /\ Len(reviews) > 0 /\ sentimentPipeline

C2_Witness ==
    AnalyzeAvailable /\ reviewsLoaded /\ modelLoaded /\ currentAnalysis = Null

\* C3: every record handed to fetch carries the time and the review of the
\* most recent successful analysis, not the time of the log action.
C3_LogCarriesAnalysisTime ==
    \A i \in 1..Len(logsInFlight) :
        /\ logsInFlight[i].analysed # Null
        /\ logsInFlight[i].payload.ts_iso = logsInFlight[i].analysed.time
        /\ logsInFlight[i].payload.review = logsInFlight[i].analysed.review

\* a record was handed over later than its analysis was made: both
\* readings of the clock in its metadata are later than its ts_iso
C3_Witness ==
    \E i \in 1..Len(logsInFlight) :
        /\ logsInFlight[i].payload.meta.env.timestamp
              > logsInFlight[i].payload.ts_iso
        /\ logsInFlight[i].payload.meta.env.analysisTime
              >= logsInFlight[i].payload.meta.env.timestamp
        /\ logsInFlight[i].payload.ts_iso = logsInFlight[i].analysed.time

\* C4: a log click while currentAnalysis is empty shows 'No analysis to
\* log', sends nothing and leaves the session and the buttons as they were.
C4_LogWithoutAnalysis ==
    [][ ((LogReject \/ LogSend) /\ currentAnalysis = Null) =>
            /\ errorShown' /\ errorMessage' = "No analysis to log"
            /\ UNCHANGED <<currentAnalysis, logsInFlight, resetTimers,
                           logBtnVars, analyzeBtnVars>> ]_vars

C4_Witness ==
    /\ currentAnalysis = Null
    /\ errorShown /\ errorMessage = "No analysis to log"
    /\ logsInFlight = <<>>
    /\ ~logBtnDisabled

\* C5 as claimed: while an analysis is in progress the log button is
\* disabled, so that no log handler can start.
C5_AsClaimed == analyzing # Null => logBtnDisabled

\* C6: when the markup has the log button disabled, the button is enabled
\* only if an analysis has succeeded.
C6_LogEnabledOnlyAfterAnalysis ==
    logBtnStartsDisabled => (~logBtnDisabled => currentAnalysis # Null)

C6_Witness ==
    logBtnStartsDisabled /\ ~logBtnDisabled /\ currentAnalysis # Null

\* C7: once the dataset load or the model load has failed, the analyze
\* button is never enabled and no click handler is attached.
C7_NoRecoveryAfterLoadFailure ==
    (reviewsPromise = "rejected" \/ modelPromise = "rejected") =>
        /\ analyzeBtnDisabled
        /\ ~analyzeListener
        /\ ~logListener

\* one load failed and the other one succeeded
C7_Witness ==
    /\ initPc = "failed"
    /\ \/ reviewsPromise = "rejected" /\ modelPromise = "fulfilled"
       \/ reviewsPromise = "fulfilled" /\ modelPromise = "rejected"
    /\ analyzeBtnDisabled

AnalysisFailures ==
    { "Analysis failed: " \o m :
        m \in {"Invalid analysis results", EngineThrows.message} }

\* C8: an analyze action that ends, with a result or with a failure, leaves
\* the analyze button enabled; a failed analysis and a failed log
\* transmission show an error, and the failed transmission leaves the log
\* button enabled.
C8_FailuresReenable ==
    [][ /\ (analyzing # Null /\ analyzing' = Null) => ~analyzeBtnDisabled'
        /\ AnalyzeFail =>
              /\ errorShown' /\ errorMessage' \in AnalysisFailures
              /\ ~analyzeBtnDisabled'
        /\ LogFetchReject =>
              /\ errorShown'
              /\ errorMessage' = "Failed to log to Google Sheets: Failed to fetch"
              /\ ~logBtnDisabled' ]_vars

C8_Witness ==
    /\ errorShown /\ errorMessage \in AnalysisFailures
    /\ analyzing = Null
    /\ ~analyzeBtnDisabled

\* C11: when the engine gives an empty array or a value that is not an
\* array, the analysis ends with 'Analysis failed: Invalid analysis results'
\* shown to the user and with no result stored or displayed.
C11_InvalidOutputSurfaced ==
    [][ \A results \in {EngineOther, EngineArray(<<>>)} :
            AnalyzeSettle(results) =>
                /\ errorShown'
                /\ errorMessage' = "Analysis failed: Invalid analysis results"
                /\ UNCHANGED <<currentAnalysis, display, lastRaw>> ]_vars

\* the first analysis of the session ended that way
C11_Witness ==
    /\ errorShown
    /\ errorMessage = "Analysis failed: Invalid analysis results"
    /\ analyzing = Null
    /\ currentAnalysis = Null
    /\ display = Null

\* C12: the session is empty until the first successful analysis, is
\* replaced only by the step that completes a successful analysis, is left
\* unchanged by failed analyses, log actions and timers, and never becomes
\* empty again.
C12_SessionFrame ==
    /\ [](currentAnalysis = Null <=> lastRaw = Null)
    /\ [][ /\ currentAnalysis # Null => currentAnalysis' # Null
           /\ currentAnalysis' # currentAnalysis =>
                 /\ analyzing # Null /\ analyzing' = Null
                 /\ currentAnalysis'.review = analyzing.review
                 /\ currentAnalysis'.timestamp = now
                 /\ lastRaw'.time = now
                 /\ UNCHANGED errorVars
           /\ ( \/ AnalyzeClick \/ AnalyzeFail \/ LogReject \/ LogSend
                \/ LogFetchResolve \/ LogFetchReject \/ ResetTimer
                \/ HideErrorTimer \/ Tick )
                 => UNCHANGED currentAnalysis ]_vars

\* an analysis failed after one had succeeded, and the session is kept
C12_Witness ==
    /\ currentAnalysis # Null
    /\ errorShown /\ errorMessage \in AnalysisFailures
    /\ analyzing = Null
    /\ currentAnalysis.timestamp < now

\* C13: every log action in flight has issued exactly one POST and every
\* analysis in flight has called the engine exactly once; a POST is added
\* only by an accepted log click, one per click, an engine call is started
\* only by an accepted analyze click, and a settled call leaves nothing in
\* flight in its place (no retry).
C13_OneCallPerAction ==
    /\ [](/\ \A i \in 1..Len(logsInFlight) : logsInFlight[i].fetches = 1
          /\ analyzing # Null => analyzing.engineCalls = 1)
    /\ [][ /\ Len(logsInFlight') > Len(logsInFlight) =>
                 /\ logListener /\ ~logBtnDisabled
                 /\ currentAnalysis # Null /\ urlConfigured
                 /\ Len(logsInFlight') = Len(logsInFlight) + 1
                 /\ SubSeq(logsInFlight', 1, Len(logsInFlight)) = logsInFlight
                 /\ logBtnDisabled'
           /\ Len(logsInFlight') <= Len(logsInFlight) =>
                 \/ UNCHANGED logsInFlight
                 \/ \E i \in 1..Len(logsInFlight) :
                       logsInFlight' = RemoveAt(logsInFlight, i)
           /\ analyzing' # analyzing =>
                 \/ /\ analyzing = Null
                    /\ analyzeListener /\ ~analyzeBtnDisabled
                    /\ modelLoaded /\ reviewsLoaded
                 \/ analyzing' = Null ]_vars

\* a POST failed at network level and nothing was sent in its place
C13_Witness ==
    /\ errorShown
    /\ errorMessage = "Failed to log to Google Sheets: " \o "Failed to fetch"
    /\ logsInFlight = <<>>
    /\ ~logBtnDisabled
    /\ logBtnText = CaptionLog

Requests == 1..MaxRequests

\* the step in which request r is served from start to end
Serves(r) == ~Started(r) /\ Done(r)'

\* the sheet after the step is the sheet before it (with the header, when
\* the sheet had to be created) and the row of request r below it
AppendsOneRow(r) ==
    /\ req'[r].data # Null
    /\ spreadsheet'.exists
    /\ spreadsheet'.logs =
          (IF spreadsheet.exists THEN spreadsheet.logs ELSE <<Header>>)
             \o <<RowData(req'[r].data)>>
    /\ req'[r].ack = AckSuccess(Len(spreadsheet'.logs))

\* the requests acknowledged with success since setupSheet was last run,
\* in the order of their arrival
Logged ==
    SelectSeq(SubSeq(req, setup.after + 1, MaxRequests),
              LAMBDA ex : ex.ack # Null /\ ex.ack.success)

\* C14 as claimed: every request whose body is valid JSON appends its row
C14_AsClaimed ==
    [][ \A r \in Requests :
          (Serves(r) /\ spreadsheet.opens
              /\ JsonParse(req'[r].contents).kind = "ok")
             => AppendsOneRow(r) ]_vars

\* C14: with requests served one after another on a document that opens,
\* every request whose body is a JSON object appends exactly its row below
\* the last used row, under the header when (and only when) this request
\* created the sheet; no request changes a row that was there; the rows of
\* the requests logged are the last rows of the sheet, in request order,
\* at the row numbers acknowledged.  A request whose body is the JSON text
\* null is acknowledged with a failure and appends no row; it creates the
\* sheet with its header when the sheet was missing.
C14_AppendInOrder ==
    /\ [](LET n == Len(Logged)
              rows == spreadsheet.logs
          IN  /\ Len(rows) >= n
              /\ \A j \in 1..n :
                    /\ rows[Len(rows) - n + j] = RowData(Logged[j].data)
                    /\ Logged[j].ack.row = Len(rows) - n + j)
    /\ [][ \A r \in Requests :
             /\ (Serves(r) /\ spreadsheet.opens
                    /\ req'[r].contents.json = "object")
                   => AppendsOneRow(r)
             /\ (Serves(r) /\ spreadsheet.opens
                    /\ req'[r].contents.json = "null") =>
                   /\ ~req'[r].ack.success
                   /\ spreadsheet'.exists
                   /\ spreadsheet'.logs =
                         (IF spreadsheet.exists THEN spreadsheet.logs
                          ELSE <<Header>>)
             /\ (Serves(r) /\ spreadsheet.exists) =>
                   SubSeq(spreadsheet'.logs, 1, Len(spreadsheet.logs))
                      = spreadsheet.logs
             /\ (Serves(r) /\ ~spreadsheet.exists /\ spreadsheet'.exists) =>
                   spreadsheet'.logs[1] = Header ]_vars

\* two requests created the sheet and logged their rows, in order
C14_Witness ==
    /\ Done(1) /\ Done(2)
    /\ req[1].contents = BodyObject(RecordA)
    /\ req[2].contents = BodyObject(RecordB)
    /\ req[1].ack = AckSuccess(2)
    /\ req[2].ack = AckSuccess(3)
    /\ spreadsheet.logs = <<Header, RowData(RecordA), RowData(RecordB)>>

\* C15: every execution of doPost that has ended has returned an
\* acknowledgment, [success: true, message, row] or [success: false,
\* error]; a success is returned by an execution that has written its
\* record, and names the row in which it wrote it; a body that is not JSON
\* ends at once with success false and its execution changes nothing in
\* the spreadsheet.
C15_AlwaysAcknowledges ==
    /\ [](\A r \in Requests :
            /\ req[r].pc \in {"waiting", "insertSheet", "header",
                               "setFontWeight", "getLastRow", "setValues",
                               "autoResizeColumns", "done"}
            /\ Done(r) =>
                  /\ req[r].ack # Null
                  /\ IF req[r].ack.success
                     THEN /\ req[r].ack = AckSuccess(req[r].lastRow + 1)
                          /\ req[r].contents.json = "object"
                     ELSE /\ req[r].ack = AckFailure(req[r].ack.error)
                          /\ req[r].ack.error # ""
            /\ (Started(r) /\ req[r].contents = BodyInvalid) =>
                  /\ Done(r)
                  /\ ~req[r].ack.success)
    /\ [][ \A r \in Requests :
             /\ (req'[r] # req[r] /\ req'[r].contents = BodyInvalid)
                   => UNCHANGED spreadsheet
             /\ (req[r].pc # "autoResizeColumns"
                    /\ req'[r].pc = "autoResizeColumns") =>
                   LET n == req'[r].lastRow + 1 IN
                   /\ n \in 1..Len(spreadsheet'.logs)
                   /\ spreadsheet'.logs[n] = RowData(req'[r].data)
                   /\ \A k \in 1..Len(spreadsheet.logs) :
                         k # n => spreadsheet'.logs[k] = spreadsheet.logs[k]
             /\ (req'[r].ack # req[r].ack /\ req'[r].ack.success) =>
                   /\ req[r].pc = "autoResizeColumns"
                   /\ req'[r].ack.row = req[r].lastRow + 1 ]_vars

\* a request logged its row and the next one, whose body is not JSON, was
\* answered with a failure and left the sheet as it was
C15_Witness ==
    /\ Done(1) /\ Done(2)
    /\ req[1].ack = AckSuccess(2)
    /\ req[2].contents = BodyInvalid
    /\ req[2].ack = AckFailure("Unexpected token")
    /\ spreadsheet.logs = <<Header, RowData(req[1].data)>>

\* C19 as claimed: once the executions have ended, the requests that were
\* acknowledged with success have different row numbers, and each finds its
\* record in the row it was acknowledged with.
C19_AsClaimed ==
    (setup.runs = 0 /\ \A r \in Requests : Started(r) => Done(r)) =>
        \A r1, r2 \in Requests :
            (/\ Done(r1) /\ Done(r2)
             /\ req[r1].contents.json = "object"
             /\ req[r2].contents.json = "object"
             /\ req[r1].ack.success /\ req[r2].ack.success) =>
                /\ r1 # r2 => req[r1].ack.row # req[r2].ack.row
                /\ req[r1].ack.row <= Len(spreadsheet.logs)
                /\ spreadsheet.logs[req[r1].ack.row] = RowData(req[r1].data)

\* C16: whatever the endpoint answered, the step in which the fetch
\* resolves shows 'Logged Successfully' and no error; the failure message
\* of the log action appears only in a step that ends a transmission
\* without a response (the fetch rejected).
C16_AckNeverRead ==
    [][ /\ (/\ Len(logsInFlight') < Len(logsInFlight)
            /\ resetTimers' > resetTimers) =>
              /\ response' # Null
              /\ logBtnText' = CaptionLogged
              /\ logBtnStyle' = "positive"
              /\ UNCHANGED errorVars
        /\ (/\ errorVars' # errorVars
            /\ errorShown'
            /\ errorMessage' =
                  "Failed to log to Google Sheets: " \o "Failed to fetch") =>
              /\ Len(logsInFlight') < Len(logsInFlight)
              /\ UNCHANGED <<response, resetTimers>> ]_vars

\* the page shows 'Logged Successfully' and no error although the endpoint
\* answered success false and appended no row
C16_Witness ==
    /\ response # Null
    /\ ~response.ack.success
    /\ ~response.appended
    /\ logBtnText = CaptionLogged
    /\ logBtnStyle = "positive"
    /\ ~errorShown

\* C17: over a dataset that is not empty getRandomReview returns one of its
\* elements (the only one when there is one), over the empty dataset it
\* throws 'No reviews available', and the dataset is the same afterwards.
C17_PicksAnElement ==
    /\ [](fnOut # Null =>
            IF Len(reviews) = 0
            THEN fnOut = Err("No reviews available")
            ELSE /\ fnOut.kind = "ok"
                 /\ \E i \in 1..Len(reviews) : fnOut.value = reviews[i]
                 /\ Len(reviews) = 1 => fnOut.value = reviews[1])
    /\ [][reviews' = reviews]_vars

\* the largest value of Math.random() picked the last of two reviews
C17_Witness ==
    /\ Len(reviews) = 2
    /\ reviews[1] # reviews[2]
    /\ fnIn.rnd = RandomDen - 1
    /\ fnOut = Ok(reviews[2])

IsDigit(c) == \E d \in 1..10 : DigitChars[d] = c

DigitValue(c) == (CHOOSE d \in 1..10 : DigitChars[d] = c) - 1

RECURSIVE CharsToNat(_)
CharsToNat(digits) ==
    IF digits = <<>> THEN 0
    ELSE 10 * CharsToNat(SubSeq(digits, 1, Len(digits) - 1))
            + DigitValue(digits[Len(digits)])

\* a decimal numeral with exactly one digit after the point and no
\* superfluous zero before it
OneDecimal(conf) ==
    /\ Len(conf) >= 3
    /\ conf[Len(conf) - 1] = "."
    /\ \A i \in 1..Len(conf) : i # Len(conf) - 1 => IsDigit(conf[i])
    /\ Len(conf) > 3 => conf[1] # "0"

\* the number of tenths that such a numeral denotes
TenthsOf(conf) ==
    10 * CharsToNat(SubSeq(conf, 1, Len(conf) - 2))
        + DigitValue(conf[Len(conf)])

Distance(a, b) == IF a < b THEN b - a ELSE a - b

\* C18: the confidence of an analysis is a numeral with exactly one
\* decimal whose value is a number of tenths nearest to score * 100 ("95.2"
\* for 0.952, "98.0" for 0.98), and the sentiment field of every record
\* handed to fetch is the label, a space, and the confidence followed by %
\* between parentheses.
C18_ConfidenceRounded ==
    /\ currentAnalysis # Null =>
          LET conf == currentAnalysis.confidence
              score == lastRaw.score
          IN  /\ OneDecimal(conf)
              /\ 2 * Distance(TenthsOf(conf) * Thousandth, score) <= Thousandth
              /\ score = 952 * Thousandth => conf = <<"9","5",".","2">>
              /\ score = 980 * Thousandth => conf = <<"9","8",".","0">>
    /\ \A i \in 1..Len(logsInFlight) :
          LET q == logsInFlight[i]
              conf == q.payload.meta.analysis.confidence
          IN  /\ q.payload.sentiment =
                    q.payload.meta.analysis.label \o <<" ", "(">> \o conf
                       \o <<"%", ")">>
              /\ OneDecimal(conf)
              /\ 2 * Distance(TenthsOf(conf) * Thousandth, q.analysed.score)
                    <= Thousandth

\* the record of a result whose score, 0.96875, is rounded up to 96.9
C18_Witness ==
    /\ logsInFlight # <<>>
    /\ logsInFlight[1].analysed.label = LabelLowerPositive
    /\ logsInFlight[1].analysed.score = 31 * ThirtySecond
    /\ logsInFlight[1].payload.meta.analysis.confidence = <<"9","6",".","9">>
    /\ logsInFlight[1].payload.sentiment =
          <<"P","O","S","I","T","I","V","E"," ","(","9","6",".","9","%",")">>

\* C20 as claimed: while a log action is awaiting its POST the log button
\* is disabled, and no two POSTs are in flight together.
C20_AsClaimed ==
    /\ logsInFlight # <<>> => logBtnDisabled
    /\ Len(logsInFlight) <= 1

\* C9 as claimed: an empty or whitespace-only text fails with 'Review text
\* is empty' whether or not the engine is initialized.
C9_AsClaimed ==
    (fnOut # Null /\ IsBlank(fnIn.text)) =>
        fnOut = Err("Review text is empty")

\* C9 amended: an empty or whitespace-only text always fails; with 'Review
\* text is empty' when the engine is initialized and with 'Sentiment model
\* not loaded' when it is not.
C9_EmptyTextFails ==
    (fnOut # Null /\ IsBlank(fnIn.text)) =>
        fnOut = IF fnIn.pipeline THEN Err("Review text is empty")
                ELSE Err("Sentiment model not loaded")

C9_Witness ==
    /\ fnOut = Err("Review text is empty")
    /\ fnIn.pipeline
    /\ IsBlank(fnIn.text) /\ fnIn.text # <<>>

\* C10 as claimed: the label kept in the session and in the log record is
\* the engine's label in its original case.
C10_AsClaimed ==
    /\ currentAnalysis # Null => currentAnalysis.label = lastRaw.label
    /\ \A i \in 1..Len(logsInFlight) :
          logsInFlight[i].payload.meta.analysis.label
              = logsInFlight[i].analysed.label

====
